---- MODULE Spec2Model ----
(***************************************************************************)
(* Reminder scheduling and delivery engine of Subscription-Saviour          *)
(* (src/app/scheduler.py), with the store rows it reads and writes          *)
(* (src/app/database.py), the user's confirmed delete and the insert of the *)
(* add flow (src/app/bot_handlers.py), and the worker that runs the tasks:  *)
(* beat, the broker queue and a pool of two processes (src/worker.py).      *)
(* The bot's conversation (the handlers of the add flow, its buttons, the   *)
(* plan limit and the users' get-or-create) works on `subscriptions`, the   *)
(* table as a list that grows by inserts, where the scheduler's            *)
(* specifications work on `subs`, a window of NumSubs rows of it.           *)
(*                                                                          *)
(* Time is an integer count of clock units, TicksPerDay units to the day,   *)
(* so that instants inside a day are distinguishable.  datetime.utcnow() is *)
(* read where the code reads it: the value of `now` at that step.           *)
(***************************************************************************)
EXTENDS Integers, Sequences, FiniteSets, TLC

\* ---------------------------------------------------------------- bounds
NumSubs       == 2     \* subscription rows in the store
MaxTime       == 3     \* last instant of the clock
TicksPerDay   == 2     \* clock resolution: units per day
MaxSent       == 2     \* messages counted per subscription (the channel fails beyond)
MaxTrigger    == 1     \* latest trigger instant of a subscription in the initial store
MaxBeats      == 2     \* ticks of the beat schedule entry
MaxRows       == 3     \* rows of the subscriptions table the conversation fills
MaxAdds       == 4     \* rows of the table where the plan limit is put to the test

\* ---------------------------------------------------------------- store
NULL == -1             \* a nullable column holding no value

SubIds  == 1..NumSubs

ReminderTypes == {"7_days", "3_days", "1_day", "2_days"}
PlanTypes     == {"free", "pro"}

\* The processes that run send_reminder: the periodic task and the on-demand task.
Procs == {"cycle", "od"}

\* celery_app.worker_main(['worker', ..., '--concurrency=2', '--beat'])
Concurrency == 2

\* the pool processes of the worker, each executing one task at a time
Pool == 1..Concurrency

VARIABLES
    now,             \* datetime.utcnow()
    subs,            \* subscriptions table: id -> row
    users,           \* users table: telegram_id -> row (exists = FALSE: no row)
    pc,              \* position of each task
    cur,             \* the subscription a task's send_reminder is working on (0: none)
    batch,           \* the rows process_pending_reminders loaded, in order
    idx,             \* position of its for-loop in batch
    reminders_sent,  \* its counter, and what it returns
    expired_cleaned, \* what cleanup_expired_subscriptions returned (NULL: not run yet)
    outcome,         \* per subscription, what the running (or last) cycle did with it
    odret,           \* what the last on-demand task returned (NoReturn: nothing yet)
    sent,            \* messages the channel delivered, per subscription
    steady,          \* the clock has not moved since the last cycle began
    repeat,          \* how the running cycle began: "no", or at the instant the
                     \* previous one began ("same_time"; "same_time_clean" when no
                     \* dispatch of the previous one failed)
    rows,            \* ids of the rows the subscriptions table holds
    beats,           \* ticks of the beat schedule entry so far
    queue,           \* send_scheduled_reminders messages waiting in the broker
    started,         \* send_scheduled_reminders executions begun so far
    wpc,             \* position of each pool process of the worker
    wbatch,          \* per pool process: the rows its process_pending_reminders loaded
    widx,            \* per pool process: position of its for-loop
    wresult,         \* per pool process: the counts its running task returns
    start_date,      \* subscriptions.start_date, per id
    notes,           \* subscriptions.notes, per id ("NULL": None, "": empty)
    text,            \* the reminder_text last handed to bot.send_message
    tz,              \* what the host's local clock is ahead of UTC (datetime.now()
                     \* minus datetime.utcnow()), in clock units
    user_sessions,   \* SubscriptionBot.user_sessions: telegram id -> session
    reply,           \* the last message the bot replied with, and to whom
    subscriptions,   \* the subscriptions table as the bot's handlers see it: the
                     \* list of its rows, the id of a row being its position
    webhook,         \* the globals of webhook.py: _application_initialized,
                     \* _initialization_lock, _event_loop, _loop_thread, and what
                     \* has been created and initialised so far
    caller           \* position of each caller of initialize_application_sync

\* the worker's pool processes, the broker queue and the beat
poolVars == <<beats, queue, started, wpc, wbatch, widx, wresult>>

\* the message of send_reminder, and the note column it reads
msgVars == <<notes, text>>

\* the bot's conversation state and the table as its handlers see it
flowVars == <<user_sessions, reply, subscriptions>>

\* the web process's initialisation
webVars == <<webhook, caller>>

\* what the scheduler's steps leave alone
botVars == <<start_date, tz, webVars, msgVars, flowVars>>

vars == <<now, subs, users, pc, cur, batch, idx, reminders_sent, expired_cleaned,
          outcome, odret, sent, steady, repeat, rows, poolVars, botVars>>

cycleLocals == <<batch, idx, reminders_sent, expired_cleaned, outcome>>

\* ---------------------------------------------------------------- pure functions
\* mutant: a category that is no key of the mapping gets the first entry's days
get_reminder_offset_days_first(t) ==
    CASE t = "1_day"  -> 1
      [] t = "2_days" -> 2
      [] t = "3_days" -> 3
      [] t = "7_days" -> 7
      [] OTHER        -> 1

\* ReminderScheduler.get_reminder_offset_days: mapping.get(reminder_type, 2)
get_reminder_offset_days(t) ==
    CASE t = "1_day"  -> 1
      [] t = "2_days" -> 2
      [] t = "3_days" -> 3
      [] t = "7_days" -> 7
      [] OTHER        -> 2

\* reminder_date = subscription.end_date - timedelta(days=reminder_offset)
reminder_date(sub) ==
    sub.end_date - get_reminder_offset_days(sub.reminder_type) * TicksPerDay

\* ---------------------------------------------------------------- queries
\* mutant: the reminded_at filter is dropped
PendingQuery_all_active(S) ==
    {s \in SubIds : S[s].is_active}

\* mutant: no filter at all
PendingQuery_no_filter(S) == SubIds

\* db.query(Subscription).filter(is_active == True, reminded_at.is_(None))
PendingQuery(S) ==
    {s \in SubIds : S[s].is_active /\ S[s].reminded_at = NULL}

\* .all(): the selected rows as a list, in primary-key order
RECURSIVE AscSeq(_)
AscSeq(X) ==
    IF X = {} THEN <<>>
    ELSE LET m == CHOOSE x \in X : \A y \in X : x <= y
         IN  <<m>> \o AscSeq(X \ {m})

\* mutant: > for >=
IsDue_strict(sub, t) == t > reminder_date(sub)

\* if datetime.utcnow() >= reminder_date
IsDue(sub, t) == t >= reminder_date(sub)

\* mutant: the is_active test is dropped
UserOk_exists(u) == users[u].exists

\* user = db.query(User).filter(telegram_id == subscription.user_id).first()
\* if user and user.is_active
UserOk(u) == users[u].exists /\ users[u].is_active

\* mutant: the write is lost
MarkReminded_lost(S, s, t) == S

\* mutant: the write stores the end date, not the current time
MarkReminded_end_date(S, s, t) == [S EXCEPT ![s].reminded_at = S[s].end_date]

\* mutant: the write clears a reminded_at that is set
MarkReminded_toggles(S, s, t) ==
    [S EXCEPT ![s].reminded_at = IF S[s].reminded_at = NULL THEN t ELSE NULL]

\* sub.reminded_at = datetime.utcnow(); db.commit()
MarkReminded(S, s, t) == [S EXCEPT ![s].reminded_at = t]

\* mutant: every dispatch is counted
CountAfter_always(n, success) == n + 1

\* if success: reminders_sent += 1
CountAfter(n, success) == IF success THEN n + 1 ELSE n

\* mutant: <= for <
ExpiredQuery_le(S, t) == {s \in SubIds : S[s].is_active /\ S[s].end_date <= t}

\* mutant: the is_active filter is dropped
ExpiredQuery_any_row(S, t) == {s \in SubIds : S[s].end_date < t}

\* filter(is_active == True, end_date < utcnow()).update({"is_active": False})
ExpiredQuery(S, t) == {s \in SubIds : S[s].is_active /\ S[s].end_date < t}

\* mutant: the update also clears reminded_at
Deactivate_resets(S, X) ==
    [s \in SubIds |-> IF s \in X THEN [S[s] EXCEPT !.is_active = FALSE, !.reminded_at = NULL]
                                ELSE S[s]]

\* mutant: the update reaches one row only
Deactivate_one(S, X) ==
    [s \in SubIds |-> IF s \in X /\ (\A y \in X : s <= y)
                      THEN [S[s] EXCEPT !.is_active = FALSE] ELSE S[s]]

Deactivate(S, X) == [s \in SubIds |-> IF s \in X THEN [S[s] EXCEPT !.is_active = FALSE] ELSE S[s]]

\* ---------------------------------------------------------------- initial state
\* users table: an active user, a deactivated user, and an id with no row
UserIds == {1, 2, 3}

\* (id: the primary key of the row; records: the rows holding the telegram id)
UsersTable ==
    (1 :> [exists |-> TRUE,  is_active |-> TRUE,  plan_type |-> "free",
           id |-> 1, records |-> 1]) @@
    (2 :> [exists |-> TRUE,  is_active |-> FALSE, plan_type |-> "pro",
           id |-> 2, records |-> 1]) @@
    (3 :> [exists |-> FALSE, is_active |-> FALSE, plan_type |-> "free",
           id |-> NULL, records |-> 0])

\* reminder_type is a nullable enum column
ReminderTypeColumn == ReminderTypes \cup {"NULL"}

\* a row as the add flow leaves it (active, not reminded) whose trigger instant is tr
NewRow(u, ty, tr) ==
    [user_id       |-> u,
     end_date      |-> tr + get_reminder_offset_days(ty) * TicksPerDay,
     reminder_type |-> ty,
     is_active     |-> TRUE,
     reminded_at   |-> NULL]

\* a row the user deleted before it came due
DeletedRow == [NewRow(1, "2_days", 0) EXCEPT !.is_active = FALSE]

\* the counts of a pool process that is running no task
NoResult == [reminders_sent |-> NULL, expired_cleaned |-> NULL]

\* what a slot of the table holds before a row with that id is inserted
EmptySlot ==
    [user_id       |-> 3,
     end_date      |-> 0,
     reminder_type |-> "NULL",
     is_active     |-> FALSE,
     reminded_at   |-> NULL]

\* the empty subscriptions table
EmptyStores == {[s \in SubIds |-> EmptySlot]}

\* stores with one live subscription of any shape
OneLiveStores ==
    {[s \in SubIds |-> IF s = 1 THEN NewRow(u, ty, tr) ELSE DeletedRow] :
        u \in UserIds, ty \in ReminderTypeColumn, tr \in 0..MaxTrigger}

\* stores whose subscriptions are all live, 1-day reminders of the active user
BatchStores ==
    [SubIds -> {NewRow(1, "1_day", tr) : tr \in 0..1}]

\* no message composed yet
NoText ==
    [chat_id |-> 0, subscription_id |-> 0, days_left |-> 0, unit |-> "",
     notes_line |-> "ABSENT"]

\* a telegram id that is no key of user_sessions
NoSession ==
    [step |-> "none", service_name |-> "ABSENT", cost |-> "ABSENT",
     subscription_type |-> "ABSENT", reminder_type |-> "ABSENT"]

\* send_individual_reminder has returned nothing (yet)
NoReturn == [returned |-> FALSE, success |-> FALSE, error |-> "ABSENT"]

\* {"success": False, "error": "Subscription or user not found"}
NotFoundResult == [returned |-> TRUE, success |-> FALSE, error |-> "not_found"]

\* the bot has replied to nobody yet
NoReply == [chat_id |-> 0, msg |-> "none"]

\* the places that call initialize_application_sync: the module's import, the
\* application factory, setup_webhook and a request thread of the threaded server
Callers == {"import", "create_app", "setup_webhook", "request"}

\* webhook.py as imported up to line 26: nothing initialised, the lock free, no
\* loop and no thread
NoApplication ==
    [application_initialized |-> FALSE,
     initialization_lock     |-> "free",
     event_loop              |-> "None",
     loop_thread             |-> "None",
     loops_created           |-> 0,
     threads_created         |-> 0,
     initialize_done         |-> 0,
     failed                  |-> FALSE]

InitWebhook ==
    /\ webhook = NoApplication
    /\ caller = [c \in Callers |-> "idle"]

\* the bot before any update, on a host whose clock is UTC; the rows of the
\* initial store were created at the clock's first instant, without notes
InitBot ==
    /\ start_date = [s \in SubIds |-> 0]
    /\ notes = [s \in SubIds |-> "NULL"]
    /\ text = NoText
    /\ tz = 0
    /\ InitWebhook
    /\ user_sessions = [u \in UserIds |-> NoSession]
    /\ reply = NoReply
    /\ subscriptions = <<>>

InitScheduler(Stores) ==
    /\ now = 0
    /\ subs \in Stores
    /\ users = UsersTable
    /\ pc = [p \in Procs |-> "idle"]
    /\ cur = [p \in Procs |-> 0]
    /\ batch = <<>>
    /\ idx = 0
    /\ reminders_sent = 0
    /\ expired_cleaned = NULL
    /\ outcome = [s \in SubIds |-> "none"]
    /\ odret = NoReturn
    /\ sent = [s \in SubIds |-> 0]
    /\ steady = FALSE
    /\ repeat = "no"
    /\ rows = {s \in SubIds : subs[s] # EmptySlot}
    /\ beats = 0
    /\ queue = 0
    /\ started = 0
    /\ wpc = [w \in Pool |-> "idle"]
    /\ wbatch = [w \in Pool |-> <<>>]
    /\ widx = [w \in Pool |-> 0]
    /\ wresult = [w \in Pool |-> NoResult]

InitWith(Stores) == InitScheduler(Stores) /\ InitBot

Init == InitWith(OneLiveStores)

InitBatch == InitWith(BatchStores)

\* the store of live 1-day reminders whose first comes due, and ends, one instant
\* before the others
StaggeredStores ==
    {[s \in SubIds |-> NewRow(1, "1_day", IF s = 1 THEN 0 ELSE 1)]}

InitWorker == InitWith(StaggeredStores)

\* ---------------------------------------------------------------- the clock
Tick ==
    /\ now < MaxTime
    /\ now' = now + 1
    /\ steady' = FALSE
    /\ UNCHANGED <<rows, poolVars, botVars>>
    /\ UNCHANGED <<subs, users, pc, cur, cycleLocals, odret, sent, repeat>>

\* ---------------------------------------------------------------- periodic task
\* send_scheduled_reminders enters process_pending_reminders: the selection query
CycleStart ==
    /\ pc["cycle"] = "idle"
    /\ batch' = AscSeq(PendingQuery(subs))
    /\ idx' = 1
    /\ reminders_sent' = 0
    /\ outcome' = [s \in SubIds |-> "none"]
    /\ pc' = [pc EXCEPT !["cycle"] = "check"]
    /\ steady' = TRUE
    /\ repeat' = IF ~steady THEN "no"
                 ELSE IF \E s \in SubIds : outcome[s] \in {"SendFailed", "WriteFailed"}
                      THEN "same_time"
                      ELSE "same_time_clean"
    /\ UNCHANGED <<rows, poolVars, botVars>>
    /\ UNCHANGED <<now, subs, users, cur, expired_cleaned, odret, sent>>

\* one iteration of the for-loop up to the call of send_reminder
CheckItem ==
    /\ pc["cycle"] = "check"
    /\ idx <= Len(batch)
    /\ LET s == batch[idx] IN
         IF IsDue(subs[s], now) /\ UserOk(subs[s].user_id)
         THEN /\ pc' = [pc EXCEPT !["cycle"] = "send"]
              /\ cur' = [cur EXCEPT !["cycle"] = s]
              /\ UNCHANGED <<idx, outcome>>
         ELSE /\ idx' = idx + 1
              /\ outcome' = [outcome EXCEPT ![s] = "Skipped"]
              /\ UNCHANGED <<pc, cur>>
    /\ UNCHANGED <<rows, poolVars, botVars>>
    /\ UNCHANGED <<now, subs, users, batch, reminders_sent, expired_cleaned,
                   odret, sent, steady, repeat>>

\* the for-loop is exhausted: return reminders_sent
LoopDone ==
    /\ pc["cycle"] = "check"
    /\ idx > Len(batch)
    /\ pc' = [pc EXCEPT !["cycle"] = "cleanup"]
    /\ UNCHANGED <<rows, poolVars, botVars>>
    /\ UNCHANGED <<now, subs, users, cur, cycleLocals, odret, sent, steady, repeat>>

\* cleanup_expired_subscriptions: the bulk update and its row count
Cleanup ==
    /\ pc["cycle"] = "cleanup"
    /\ subs' = Deactivate(subs, ExpiredQuery(subs, now))
    /\ expired_cleaned' = Cardinality(ExpiredQuery(subs, now))
    /\ pc' = [pc EXCEPT !["cycle"] = "return"]
    /\ UNCHANGED <<rows, poolVars, botVars>>
    /\ UNCHANGED <<now, users, cur, batch, idx, reminders_sent, outcome, odret,
                   sent, steady, repeat>>

\* send_scheduled_reminders returns {reminders_sent, expired_cleaned, timestamp};
\* its locals are gone
TaskReturn ==
    /\ pc["cycle"] = "return"
    /\ pc' = [pc EXCEPT !["cycle"] = "idle"]
    /\ batch' = <<>>
    /\ idx' = 0
    /\ reminders_sent' = 0
    /\ expired_cleaned' = NULL
    /\ UNCHANGED <<rows, poolVars, botVars>>
    /\ UNCHANGED <<now, subs, users, cur, outcome, odret, sent, steady, repeat>>

\* ---------------------------------------------------------------- send_reminder
\* what the caller does with send_reminder's return value
Return(p, s, success, what) ==
    IF p = "cycle"
    THEN /\ reminders_sent' = CountAfter(reminders_sent, success)
         /\ outcome' = [outcome EXCEPT ![s] = what]
         /\ idx' = idx + 1
         /\ pc' = [pc EXCEPT ![p] = "check"]
         /\ cur' = [cur EXCEPT ![p] = 0]
         /\ UNCHANGED <<batch, expired_cleaned, odret>>
    ELSE /\ odret' = [returned |-> TRUE, success |-> success, error |-> "ABSENT"]
         /\ pc' = [pc EXCEPT ![p] = "idle"]
         /\ cur' = [cur EXCEPT ![p] = 0]
         /\ UNCHANGED cycleLocals

\* mutant: send_reminder goes on to the write without a delivered message
SendOk_unconfirmed(p) ==
    /\ pc[p] = "send"
    /\ pc' = [pc EXCEPT ![p] = "write"]
    /\ UNCHANGED <<rows, poolVars, botVars>>
    /\ UNCHANGED <<now, subs, users, cur, cycleLocals, odret, sent, steady, repeat>>

\* await self.bot.send_message(...) returns
SendOk(p) ==
    /\ pc[p] = "send"
    /\ sent[cur[p]] < MaxSent
    /\ sent' = [sent EXCEPT ![cur[p]] = @ + 1]
    /\ pc' = [pc EXCEPT ![p] = "write"]
    /\ UNCHANGED <<rows, poolVars, botVars>>
    /\ UNCHANGED <<now, subs, users, cur, cycleLocals, odret, steady, repeat>>

\* mutant: the failed send is recorded as a reminder
SendFail_marks(p) ==
    /\ pc[p] = "send"
    /\ subs' = [subs EXCEPT ![cur[p]].reminded_at = now]
    /\ Return(p, cur[p], FALSE, "SendFailed")
    /\ UNCHANGED <<rows, poolVars, botVars>>
    /\ UNCHANGED <<now, users, sent, steady, repeat>>

\* mutant: the exception leaves the for-loop
SendFail_aborts(p) ==
    /\ pc[p] = "send"
    /\ IF p = "cycle"
       THEN /\ outcome' = [outcome EXCEPT ![cur[p]] = "SendFailed"]
            /\ pc' = [pc EXCEPT ![p] = "cleanup"]
            /\ cur' = [cur EXCEPT ![p] = 0]
            /\ UNCHANGED <<batch, idx, reminders_sent, expired_cleaned, odret>>
       ELSE Return(p, cur[p], FALSE, "SendFailed")
    /\ UNCHANGED <<rows, poolVars, botVars>>
    /\ UNCHANGED <<now, subs, users, sent, steady, repeat>>

\* await self.bot.send_message(...) raises: except branch, return False
SendFail(p) ==
    /\ pc[p] = "send"
    /\ Return(p, cur[p], FALSE, "SendFailed")
    /\ UNCHANGED <<rows, poolVars, botVars>>
    /\ UNCHANGED <<now, subs, users, sent, steady, repeat>>

\* the reminded_at write commits: return True
WriteOk(p) ==
    /\ pc[p] = "write"
    /\ subs' = MarkReminded(subs, cur[p], now)
    /\ Return(p, cur[p], TRUE, "Sent")
    /\ UNCHANGED <<rows, poolVars, botVars>>
    /\ UNCHANGED <<now, users, sent, steady, repeat>>

\* the reminded_at write raises: except branch, return False
WriteFail(p) ==
    /\ pc[p] = "write"
    /\ Return(p, cur[p], FALSE, "WriteFailed")
    /\ UNCHANGED <<rows, poolVars, botVars>>
    /\ UNCHANGED <<now, subs, users, sent, steady, repeat>>

\* ---------------------------------------------------------------- on-demand task
\* mutant: the lookup of the row does not filter on is_active
OnDemand_any_row(id) ==
    /\ pc["od"] = "idle"
    /\ IF id \in SubIds /\ users[subs[id].user_id].exists
       THEN /\ pc' = [pc EXCEPT !["od"] = "send"]
            /\ cur' = [cur EXCEPT !["od"] = id]
            /\ odret' = NoReturn
       ELSE /\ odret' = NotFoundResult
            /\ UNCHANGED <<pc, cur>>
    /\ UNCHANGED <<rows, poolVars, botVars>>
    /\ UNCHANGED <<now, subs, users, cycleLocals, sent, steady, repeat>>

\* send_individual_reminder(subscription_id) up to the call of send_reminder
OnDemand(id) ==
    /\ pc["od"] = "idle"
    /\ IF id \in SubIds /\ subs[id].is_active /\ users[subs[id].user_id].exists
       THEN /\ pc' = [pc EXCEPT !["od"] = "send"]
            /\ cur' = [cur EXCEPT !["od"] = id]
            /\ odret' = NoReturn
       ELSE /\ odret' = NotFoundResult
            /\ UNCHANGED <<pc, cur>>
    /\ UNCHANGED <<rows, poolVars, botVars>>
    /\ UNCHANGED <<now, subs, users, cycleLocals, sent, steady, repeat>>

\* ---------------------------------------------------------------- the user's delete
\* SubscriptionBot._handle_confirm_delete
ConfirmDelete(u, id) ==
    /\ subs[id].user_id = u
    /\ subs[id].is_active
    /\ subs' = [subs EXCEPT ![id].is_active = FALSE]
    /\ UNCHANGED <<rows, poolVars, botVars>>
    /\ UNCHANGED <<now, users, pc, cur, cycleLocals, odret, sent, steady, repeat>>

\* ---------------------------------------------------------------- the worker
\* what the tasks of the pool processes leave alone
soloVars == <<users, pc, cur, cycleLocals, odret, steady, repeat, rows, botVars>>

\* beat_schedule 'send-reminders-every-hour': the entry is due and beat sends a
\* send_scheduled_reminders message to the broker (a message that waits while a
\* pool process is free is taken before the hour is over)
Beat ==
    /\ beats < MaxBeats
    /\ queue > 0 => \A w \in Pool : wpc[w] # "idle"
    /\ beats' = beats + 1
    /\ queue' = queue + 1
    /\ UNCHANGED <<started, wpc, wbatch, widx, wresult>>
    /\ UNCHANGED <<now, subs, sent, soloVars>>

\* a free pool process takes a message from the broker and executes the task:
\* send_scheduled_reminders enters process_pending_reminders, the selection query
PoolStart(w) ==
    /\ wpc[w] = "idle"
    /\ queue > 0
    /\ queue' = queue - 1
    /\ started' = started + 1
    /\ wbatch' = [wbatch EXCEPT ![w] = AscSeq(PendingQuery(subs))]
    /\ widx' = [widx EXCEPT ![w] = 1]
    /\ wresult' = [wresult EXCEPT ![w] = [reminders_sent |-> 0, expired_cleaned |-> NULL]]
    /\ wpc' = [wpc EXCEPT ![w] = "check"]
    /\ UNCHANGED <<beats, now, subs, sent, soloVars>>

\* one iteration of the for-loop up to the call of send_reminder
PoolCheck(w) ==
    /\ wpc[w] = "check"
    /\ widx[w] <= Len(wbatch[w])
    /\ LET s == wbatch[w][widx[w]] IN
         IF IsDue(subs[s], now) /\ UserOk(subs[s].user_id)
         THEN /\ wpc' = [wpc EXCEPT ![w] = "send"]
              /\ UNCHANGED widx
         ELSE /\ widx' = [widx EXCEPT ![w] = @ + 1]
              /\ UNCHANGED wpc
    /\ UNCHANGED <<beats, queue, started, wbatch, wresult, now, subs, sent, soloVars>>

\* await self.bot.send_message(...) returns
PoolSendOk(w) ==
    /\ wpc[w] = "send"
    /\ sent' = [sent EXCEPT ![wbatch[w][widx[w]]] = @ + 1]
    /\ wpc' = [wpc EXCEPT ![w] = "write"]
    /\ UNCHANGED <<beats, queue, started, wbatch, widx, wresult, now, subs, soloVars>>

\* the reminded_at write commits: return True, reminders_sent += 1, next item
PoolWriteOk(w) ==
    /\ wpc[w] = "write"
    /\ subs' = MarkReminded(subs, wbatch[w][widx[w]], now)
    /\ wresult' = [wresult EXCEPT ![w].reminders_sent =
                        CountAfter(wresult[w].reminders_sent, TRUE)]
    /\ widx' = [widx EXCEPT ![w] = @ + 1]
    /\ wpc' = [wpc EXCEPT ![w] = "check"]
    /\ UNCHANGED <<beats, queue, started, wbatch, now, sent, soloVars>>

\* mutant: the task goes on to the cleanup before the for-loop is exhausted
PoolLoopDone_early(w) ==
    /\ wpc[w] = "check"
    /\ wpc' = [wpc EXCEPT ![w] = "cleanup"]
    /\ UNCHANGED <<beats, queue, started, wbatch, widx, wresult, now, subs, sent, soloVars>>

\* the for-loop is exhausted: return reminders_sent
PoolLoopDone(w) ==
    /\ wpc[w] = "check"
    /\ widx[w] > Len(wbatch[w])
    /\ wpc' = [wpc EXCEPT ![w] = "cleanup"]
    /\ UNCHANGED <<beats, queue, started, wbatch, widx, wresult, now, subs, sent, soloVars>>

\* cleanup_expired_subscriptions: the bulk update and its row count
PoolCleanup(w) ==
    /\ wpc[w] = "cleanup"
    /\ subs' = Deactivate(subs, ExpiredQuery(subs, now))
    /\ wresult' = [wresult EXCEPT ![w].expired_cleaned = Cardinality(ExpiredQuery(subs, now))]
    /\ wpc' = [wpc EXCEPT ![w] = "return"]
    /\ UNCHANGED <<beats, queue, started, wbatch, widx, now, sent, soloVars>>

\* send_scheduled_reminders returns {reminders_sent, expired_cleaned, timestamp};
\* its locals are gone
PoolReturn(w) ==
    /\ wpc[w] = "return"
    /\ wpc' = [wpc EXCEPT ![w] = "idle"]
    /\ wbatch' = [wbatch EXCEPT ![w] = <<>>]
    /\ widx' = [widx EXCEPT ![w] = 0]
    /\ wresult' = [wresult EXCEPT ![w] = NoResult]
    /\ UNCHANGED <<beats, queue, started, now, subs, sent, soloVars>>

\* ---------------------------------------------------------------- the add flow
\* users.id is the autoincremented primary key
NextUserId(U) ==
    1 + Cardinality({t \in UserIds : U[t].exists})

\* mutant: a row is inserted at every call
GetOrCreate_always(U, u) ==
    [U EXCEPT ![u] = [exists |-> TRUE, is_active |-> TRUE, plan_type |-> "free",
                      id |-> IF U[u].exists THEN U[u].id ELSE NextUserId(U),
                      records |-> U[u].records + 1]]

\* get_user_by_telegram_id: the user's row, created (FREE, active) when missing
GetOrCreate(U, u) ==
    IF U[u].exists THEN U
    ELSE [U EXCEPT ![u] = [exists |-> TRUE, is_active |-> TRUE, plan_type |-> "free",
                           id |-> NextUserId(U), records |-> 1]]

\* the row _handle_end_date_input builds for user u of table U and end date e
AddedRow(U, u, e) ==
    [user_id       |-> u,
     end_date      |-> e,
     reminder_type |-> IF U[u].plan_type = "free" THEN "2_days" ELSE "3_days",
     is_active     |-> TRUE,
     reminded_at   |-> NULL]

\* mutant: the insert takes the id of a deactivated row when there is one
AddSubscription_reuses(u, e) ==
    /\ e > now + tz
    /\ \/ \E s \in rows : ~subs[s].is_active
       \/ Cardinality(rows) < NumSubs
    /\ LET id == IF \E s \in rows : ~subs[s].is_active
                 THEN CHOOSE s \in rows : ~subs[s].is_active
                 ELSE Cardinality(rows) + 1
           U  == GetOrCreate(users, u)
       IN  /\ users' = U
           /\ subs' = [subs EXCEPT ![id] = AddedRow(U, u, e)]
           /\ rows' = rows \cup {id}
           /\ start_date' = [start_date EXCEPT ![id] = now]
    /\ UNCHANGED <<poolVars, tz, webVars, msgVars, flowVars>>
    /\ UNCHANGED <<now, pc, cur, cycleLocals, odret, sent, steady, repeat>>

\* SubscriptionBot._handle_end_date_input, the text being a date after the host's
\* local time (datetime.now()), sent by a user whose session awaits the end date:
\* db.add(subscription) with start_date = datetime.utcnow(), db.commit()
AddSubscription(u, e) ==
    /\ e > now + tz
    /\ Cardinality(rows) < NumSubs
    /\ LET id == Cardinality(rows) + 1
           U  == GetOrCreate(users, u)
       IN  /\ users' = U
           /\ subs' = [subs EXCEPT ![id] = AddedRow(U, u, e)]
           /\ rows' = rows \cup {id}
           /\ start_date' = [start_date EXCEPT ![id] = now]
    /\ UNCHANGED <<poolVars, tz, webVars, msgVars, flowVars>>
    /\ UNCHANGED <<now, pc, cur, cycleLocals, odret, sent, steady, repeat>>

\* ---------------------------------------------------------------- store read failures
\* the selection query of process_pending_reminders raises: the exception leaves
\* process_pending_reminders and reaches the except clause of the task
SelectFail ==
    /\ pc["cycle"] = "idle"
    /\ pc' = [pc EXCEPT !["cycle"] = "raised"]
    /\ outcome' = [s \in SubIds |-> "none"]
    /\ steady' = FALSE      \* a cycle that selected nothing is not one to repeat
    /\ UNCHANGED <<rows, poolVars, botVars>>
    /\ UNCHANGED <<now, subs, users, cur, batch, idx, reminders_sent, expired_cleaned,
                   odret, sent, repeat>>

\* the item is due and the query for its user raises: the for-loop has no
\* handler, the exception leaves process_pending_reminders with the items before
\* this one already dispatched
UserReadFail ==
    /\ pc["cycle"] = "check"
    /\ idx <= Len(batch)
    /\ IsDue(subs[batch[idx]], now)
    /\ pc' = [pc EXCEPT !["cycle"] = "raised"]
    /\ UNCHANGED <<rows, poolVars, botVars>>
    /\ UNCHANGED <<now, subs, users, cur, cycleLocals, odret, sent, steady, repeat>>

\* send_scheduled_reminders: except Exception: logger.error(...); raise.
\* cleanup_expired_subscriptions is not reached; the locals are gone
TaskRaise ==
    /\ pc["cycle"] = "raised"
    /\ pc' = [pc EXCEPT !["cycle"] = "idle"]
    /\ batch' = <<>>
    /\ idx' = 0
    /\ reminders_sent' = 0
    /\ expired_cleaned' = NULL
    /\ UNCHANGED <<rows, poolVars, botVars>>
    /\ UNCHANGED <<now, subs, users, cur, outcome, odret, sent, steady, repeat>>

\* ---------------------------------------------------------------- dates and clocks
\* datetime.strptime(date_text, '%Y-%m-%d'): the first instant of day d
ParseDate(d) == d * TicksPerDay

\* the days a user can name while the clock runs
LastDay == (MaxTime \div TicksPerDay) + 1
Days == 0..LastDay

\* datetime.now() minus datetime.utcnow() on the host: less than a day either way
ZoneOffsets == (1 - TicksPerDay)..(TicksPerDay - 1)

\* ---------------------------------------------------------------- the reminder message
\* mutant: the day of the dispatch is counted as a day left
days_left_inclusive(end, t) == (end - t) \div TicksPerDay + 1

\* mutant: the part of a day counts as a day
days_left_up(end, t) == -((t - end) \div TicksPerDay)

\* days_left = (subscription.end_date - datetime.utcnow()).days
\* (timedelta.days is the floor of the difference in days, also when negative)
days_left(end, t) == (end - t) \div TicksPerDay

\* mutant: the note is appended whatever the plan
reminder_text_any_plan(id, sub, note, user, t) ==
    [chat_id         |-> sub.user_id,
     subscription_id |-> id,
     days_left       |-> days_left(sub.end_date, t),
     unit            |-> IF days_left(sub.end_date, t) # 1 THEN "days" ELSE "day",
     notes_line      |-> IF note \notin {"NULL", ""} THEN note ELSE "ABSENT"]

\* reminder_text of send_reminder for row sub (of that id, with that note) and its
\* user, composed at instant t: "expires in {days_left} day{'s' if days_left != 1
\* else ''}", and the "Your Notes" line if user.plan_type == PlanType.PRO and
\* subscription.notes
reminder_text(id, sub, note, user, t) ==
    [chat_id         |-> sub.user_id,
     subscription_id |-> id,
     days_left       |-> days_left(sub.end_date, t),
     unit            |-> IF days_left(sub.end_date, t) # 1 THEN "days" ELSE "day",
     notes_line      |-> IF user.plan_type = "pro" /\ note \notin {"NULL", ""}
                         THEN note ELSE "ABSENT"]

\* send_individual_reminder(id) taken as one step: the row and its user are read,
\* send_reminder composes the text at the instant of the call and hands it to
\* bot.send_message; the channel delivers and the reminded_at write commits
\* (ok), or the channel raises and send_reminder returns False; a row that is
\* not active or has no user gets no message
RemindNow(id, ok) ==
    /\ pc["od"] = "idle"
    /\ sent[id] < MaxSent
    /\ IF subs[id].is_active /\ users[subs[id].user_id].exists
       THEN /\ text' = reminder_text(id, subs[id], notes[id],
                                     users[subs[id].user_id], now)
            /\ sent' = [sent EXCEPT ![id] = IF ok THEN @ + 1 ELSE @]
            /\ subs' = IF ok THEN MarkReminded(subs, id, now) ELSE subs
       ELSE UNCHANGED <<text, sent, subs>>
    /\ UNCHANGED <<rows, poolVars, start_date, tz, webVars, notes, flowVars>>
    /\ UNCHANGED <<now, users, pc, cur, cycleLocals, odret, steady, repeat>>

\* ---------------------------------------------------------------- the conversation
\* the free plan limit of can_add_subscription
FreeLimit == 3

\* get_active_subscriptions_count: the active rows of the user in table T
get_active_subscriptions_count(T, u) ==
    Cardinality({i \in 1..Len(T) : T[i].user_id = u /\ T[i].is_active})

\* mutant: a free user at the limit may still add
can_add_subscription_le(U, T, u) ==
    \/ GetOrCreate(U, u)[u].plan_type = "pro"
    \/ get_active_subscriptions_count(T, u) <= FreeLimit

\* can_add_subscription(db, user_id) on users table U and subscriptions table T
\* (the user's row is created when missing)
can_add_subscription(U, T, u) ==
    \/ GetOrCreate(U, u)[u].plan_type = "pro"
    \/ get_active_subscriptions_count(T, u) < FreeLimit

\* what a user can send as a text: a short word, a text of more than 50
\* characters, the word 'skip', or a date YYYY-MM-DD naming day d
Word == [kind |-> "word", day |-> 0]
LongText == [kind |-> "long", day |-> 0]
SkipText == [kind |-> "skip", day |-> 0]
DateText(d) == [kind |-> "date", day |-> d]

\* self.user_sessions[user_id] = {"step": "awaiting_service_name"}
NewSession == [NoSession EXCEPT !.step = "awaiting_service_name"]

\* reminder_map.get(reminder_setting, ReminderType.TWO_DAYS)
reminder_map(setting) ==
    CASE setting = "7" -> "7_days"
      [] setting = "3" -> "3_days"
      [] setting = "1" -> "1_day"
      [] OTHER         -> "2_days"

\* mutant: the row takes the lead time the session holds, when it holds one
NewSubscription_session(U, u, session, e, t) ==
    [user_id       |-> u,
     start_date    |-> t,
     end_date      |-> e,
     reminder_type |-> IF session.reminder_type # "ABSENT" THEN session.reminder_type
                       ELSE IF U[u].plan_type = "free" THEN "2_days" ELSE "3_days",
     is_active     |-> TRUE,
     reminded_at   |-> NULL]

\* Subscription(user_id=user_id, ..., start_date=datetime.utcnow(),
\* end_date=end_date, reminder_type=TWO_DAYS if FREE else THREE_DAYS)
NewSubscription(U, u, session, e, t) ==
    [user_id       |-> u,
     start_date    |-> t,
     end_date      |-> e,
     reminder_type |-> IF U[u].plan_type = "free" THEN "2_days" ELSE "3_days",
     is_active     |-> TRUE,
     reminded_at   |-> NULL]

\* what the handlers of the conversation leave alone
schedVars == <<pc, cur, cycleLocals, odret, sent, steady, repeat, rows, subs,
               poolVars, start_date, msgVars>>

\* /add and the "Add Subscription" button: add_subscription_flow
add_subscription_flow(u) ==
    /\ users' = GetOrCreate(users, u)
    /\ IF ~can_add_subscription(users, subscriptions, u)
       THEN /\ reply' = [chat_id |-> u, msg |-> "limit"]
            /\ UNCHANGED user_sessions
       ELSE /\ user_sessions' = [user_sessions EXCEPT ![u] = NewSession]
            /\ reply' = [chat_id |-> u, msg |-> "ask_service_name"]
    /\ UNCHANGED <<now, tz, webVars, subscriptions, schedVars>>

\* handle_callback for "add_first_subscription":
\* update_user_interaction, then _handle_add_subscription_callback
add_first_subscription(u) ==
    /\ users' = GetOrCreate(users, u)
    /\ IF ~can_add_subscription(users, subscriptions, u)
       THEN /\ reply' = [chat_id |-> u, msg |-> "limit"]
            /\ UNCHANGED user_sessions
       ELSE /\ user_sessions' = [user_sessions EXCEPT ![u] = NewSession]
            /\ reply' = [chat_id |-> u, msg |-> "ask_service_name"]
    /\ UNCHANGED <<now, tz, webVars, subscriptions, schedVars>>

\* _handle_service_name_input
service_name_input(u, txt) ==
    /\ IF txt.kind = "long"
       THEN /\ reply' = [chat_id |-> u, msg |-> "too_long"]
            /\ UNCHANGED user_sessions
       ELSE /\ user_sessions' = [user_sessions EXCEPT ![u].service_name = txt.kind,
                                                       ![u].step = "awaiting_cost"]
            /\ reply' = [chat_id |-> u, msg |-> "ask_cost"]
    /\ UNCHANGED <<users, subscriptions>>

\* _handle_cost_input
cost_input(u, txt) ==
    /\ user_sessions' =
         [user_sessions EXCEPT ![u].cost = IF txt.kind = "skip" THEN "None" ELSE txt.kind,
                               ![u].step = "awaiting_end_date"]
    /\ reply' = [chat_id |-> u, msg |-> "ask_end_date"]
    /\ UNCHANGED <<users, subscriptions>>

\* _handle_end_date_input: strptime raises ValueError for a text that is no date;
\* a date not after the host's local time is refused; session["service_name"]
\* raises KeyError when the session never got a name (the update is dropped,
\* after get_user_by_telegram_id);
\* otherwise the row is inserted and the session deleted
end_date_input(u, txt) ==
    IF txt.kind # "date"
    THEN /\ reply' = [chat_id |-> u, msg |-> "invalid_date"]
         /\ UNCHANGED <<users, subscriptions, user_sessions>>
    ELSE IF ParseDate(txt.day) <= now + tz
    THEN /\ reply' = [chat_id |-> u, msg |-> "not_future"]
         /\ UNCHANGED <<users, subscriptions, user_sessions>>
    ELSE IF user_sessions[u].service_name = "ABSENT"
    THEN /\ users' = GetOrCreate(users, u)
         /\ UNCHANGED <<subscriptions, user_sessions, reply>>
    ELSE /\ users' = GetOrCreate(users, u)
         /\ subscriptions' =
              Append(subscriptions,
                     NewSubscription(GetOrCreate(users, u), u, user_sessions[u],
                                     ParseDate(txt.day), now))
         /\ user_sessions' = [user_sessions EXCEPT ![u] = NoSession]
         /\ reply' = [chat_id |-> u, msg |-> "added"]

\* the text makes _handle_end_date_input insert a row
Inserts(u, txt) ==
    /\ user_sessions[u].step = "awaiting_end_date"
    /\ txt.kind = "date"
    /\ ParseDate(txt.day) > now + tz
    /\ user_sessions[u].service_name # "ABSENT"

\* the table has room for the row the text would insert, n rows being the most
\* it is let grow to
Room(u, txt, n) == Inserts(u, txt) => Len(subscriptions) < n

\* handle_text_input: a text of a user without a session is ignored, another
\* goes to the handler of the session's step
handle_text_input(u, txt) ==
    /\ CASE user_sessions[u].step = "awaiting_service_name" -> service_name_input(u, txt)
         [] user_sessions[u].step = "awaiting_cost"         -> cost_input(u, txt)
         [] user_sessions[u].step = "awaiting_end_date"     -> end_date_input(u, txt)
         [] OTHER -> UNCHANGED <<users, subscriptions, user_sessions, reply>>
    /\ UNCHANGED <<now, tz, webVars, schedVars>>

\* handle_callback for "skip_cost": update_user_interaction, then _handle_skip_cost
skip_cost(u) ==
    /\ users' = GetOrCreate(users, u)
    /\ IF user_sessions[u].step = "none"
       THEN /\ reply' = [chat_id |-> u, msg |-> "session_expired"]
            /\ UNCHANGED user_sessions
       ELSE /\ user_sessions' = [user_sessions EXCEPT ![u].cost = "None",
                                                       ![u].step = "awaiting_end_date"]
            /\ reply' = [chat_id |-> u, msg |-> "ask_end_date"]
    /\ UNCHANGED <<now, tz, webVars, subscriptions, schedVars>>

\* handle_callback for "cancel_add": update_user_interaction, then _handle_cancel
cancel_add(u) ==
    /\ users' = GetOrCreate(users, u)
    /\ user_sessions' = [user_sessions EXCEPT ![u] = NoSession]
    /\ reply' = [chat_id |-> u, msg |-> "canceled"]
    /\ UNCHANGED <<now, tz, webVars, subscriptions, schedVars>>

\* handle_callback for "type_<ty>": update_user_interaction, then
\* _handle_subscription_type, which shows get_reminder_settings_keyboard(plan)
subscription_type(u, ty) ==
    /\ users' = GetOrCreate(users, u)
    /\ IF user_sessions[u].step = "none"
       THEN /\ reply' = [chat_id |-> u, msg |-> "session_expired"]
            /\ UNCHANGED user_sessions
       ELSE /\ user_sessions' = [user_sessions EXCEPT ![u].subscription_type = ty]
            /\ reply' = [chat_id |-> u,
                         msg |-> IF GetOrCreate(users, u)[u].plan_type = "pro"
                                 THEN "reminder_keyboard_7_3_1"
                                 ELSE "reminder_keyboard_2"]
    /\ UNCHANGED <<now, tz, webVars, subscriptions, schedVars>>

\* handle_callback for "reminder_<setting>_...": update_user_interaction, then
\* _handle_reminder_setting, which replies "Your subscription has been added
\* successfully!"
reminder_setting(u, setting) ==
    /\ users' = GetOrCreate(users, u)
    /\ IF user_sessions[u].step = "none"
       THEN /\ reply' = [chat_id |-> u, msg |-> "session_expired"]
            /\ UNCHANGED user_sessions
       ELSE /\ user_sessions' =
                 [user_sessions EXCEPT ![u].reminder_type = reminder_map(setting)]
            /\ reply' = [chat_id |-> u, msg |-> "settings_saved_added"]
    /\ UNCHANGED <<now, tz, webVars, subscriptions, schedVars>>

\* mutant: the row is looked up by its id alone
confirm_delete_any_owner(u, id) ==
    /\ users' = GetOrCreate(users, u)
    /\ IF id \in 1..Len(subscriptions)
       THEN /\ subscriptions' = [subscriptions EXCEPT ![id].is_active = FALSE]
            /\ reply' = [chat_id |-> u, msg |-> "deleted"]
       ELSE /\ reply' = [chat_id |-> u, msg |-> "not_found"]
            /\ UNCHANGED subscriptions
    /\ UNCHANGED <<now, tz, webVars, user_sessions, schedVars>>

\* handle_callback for "confirm_delete_<id>": update_user_interaction, then
\* _handle_confirm_delete
confirm_delete(u, id) ==
    /\ users' = GetOrCreate(users, u)
    /\ IF id \in 1..Len(subscriptions) /\ subscriptions[id].user_id = u
       THEN /\ subscriptions' = [subscriptions EXCEPT ![id].is_active = FALSE]
            /\ reply' = [chat_id |-> u, msg |-> "deleted"]
       ELSE /\ reply' = [chat_id |-> u, msg |-> "not_found"]
            /\ UNCHANGED subscriptions
    /\ UNCHANGED <<now, tz, webVars, user_sessions, schedVars>>

\* Config.ADMIN_USER_ID = int(os.getenv('ADMIN_USER_ID', 0)), which validate()
\* refuses when 0: the telegram id of the deployment's admin, here the second user
ADMIN_USER_ID == 2

\* context.args of /grant_pro: none, a word that is no integer, or a telegram id
NoArgs == [kind |-> "none", id |-> 0]
WordArg == [kind |-> "word", id |-> 0]
IdArg(t) == [kind |-> "id", id |-> t]
GrantArgs == {NoArgs, WordArg} \cup {IdArg(t) : t \in UserIds}

\* upgrade_user_to_pro(db, telegram_id): get-or-create, then plan_type = PRO
upgrade_user_to_pro(U, t) == [GetOrCreate(U, t) EXCEPT ![t].plan_type = "pro"]

\* what a handler that only replies leaves alone
replyFrame == <<now, tz, webVars, users, user_sessions, subscriptions, schedVars>>

\* /admin: admin_panel
admin_panel(c) ==
    /\ reply' = [chat_id |-> c,
                 msg |-> IF c # ADMIN_USER_ID THEN "access_denied" ELSE "admin_panel"]
    /\ UNCHANGED replyFrame

\* /admin_stats: admin_stats (pro_users/total_users raises ZeroDivisionError on
\* an empty users table, and the update is dropped without a reply)
admin_stats(c) ==
    /\ reply' = IF c # ADMIN_USER_ID THEN [chat_id |-> c, msg |-> "access_denied"]
                ELSE IF \A t \in UserIds : ~users[t].exists THEN reply
                ELSE [chat_id |-> c, msg |-> "stats"]
    /\ UNCHANGED replyFrame

\* /broadcast: admin_broadcast
admin_broadcast(c) ==
    /\ reply' = [chat_id |-> c,
                 msg |-> IF c # ADMIN_USER_ID THEN "access_denied" ELSE "ask_broadcast"]
    /\ UNCHANGED replyFrame

\* mutant: /grant_pro does not look at who sends it
admin_grant_pro_anyone(c, arg) ==
    /\ IF arg.kind = "none"
       THEN /\ reply' = [chat_id |-> c, msg |-> "usage"]
            /\ UNCHANGED users
       ELSE IF arg.kind = "word"
       THEN /\ reply' = [chat_id |-> c, msg |-> "invalid_id"]
            /\ UNCHANGED users
       ELSE /\ users' = upgrade_user_to_pro(users, arg.id)
            /\ reply' = [chat_id |-> c, msg |-> "upgraded"]
    /\ UNCHANGED <<now, tz, webVars, user_sessions, subscriptions, schedVars>>

\* /grant_pro <user_id> sent by c: admin_grant_pro (int(args[0]) raises
\* ValueError for a word)
admin_grant_pro(c, arg) ==
    /\ IF c # ADMIN_USER_ID
       THEN /\ reply' = [chat_id |-> c, msg |-> "access_denied"]
            /\ UNCHANGED users
       ELSE IF arg.kind = "none"
       THEN /\ reply' = [chat_id |-> c, msg |-> "usage"]
            /\ UNCHANGED users
       ELSE IF arg.kind = "word"
       THEN /\ reply' = [chat_id |-> c, msg |-> "invalid_id"]
            /\ UNCHANGED users
       ELSE /\ users' = upgrade_user_to_pro(users, arg.id)
            /\ reply' = [chat_id |-> c, msg |-> "upgraded"]
    /\ UNCHANGED <<now, tz, webVars, user_sessions, subscriptions, schedVars>>

\* handle_callback for "delete_<id>": update_user_interaction, then
\* _handle_delete_subscription, which asks for the confirmation
delete_subscription(u, id) ==
    /\ users' = GetOrCreate(users, u)
    /\ reply' = [chat_id |-> u,
                 msg |-> IF id \in 1..Len(subscriptions) /\ subscriptions[id].user_id = u
                         THEN "ask_confirm_delete" ELSE "not_found"]
    /\ UNCHANGED <<now, tz, webVars, user_sessions, subscriptions, schedVars>>

\* cleanup_expired_subscriptions on the table as the bot's handlers see it
cleanup_expired_subscriptions ==
    /\ subscriptions' =
         [i \in 1..Len(subscriptions) |->
            IF subscriptions[i].is_active /\ subscriptions[i].end_date < now
            THEN [subscriptions[i] EXCEPT !.is_active = FALSE]
            ELSE subscriptions[i]]
    /\ UNCHANGED <<now, tz, webVars, users, user_sessions, reply, schedVars>>

\* send_reminder called by the cycle, up to the delivered message: days_left is
\* computed from the clock as it is then, the text is composed and
\* bot.send_message returns
SendReminder(p) ==
    /\ pc[p] = "send"
    /\ sent[cur[p]] < MaxSent
    /\ text' = reminder_text(cur[p], subs[cur[p]], notes[cur[p]],
                             users[subs[cur[p]].user_id], now)
    /\ sent' = [sent EXCEPT ![cur[p]] = @ + 1]
    /\ pc' = [pc EXCEPT ![p] = "write"]
    /\ UNCHANGED <<rows, poolVars, start_date, tz, webVars, notes, flowVars>>
    /\ UNCHANGED <<now, subs, users, cur, cycleLocals, odret, steady, repeat>>

\* ---------------------------------------------------------------- webhook.py
\* what a step of the web process's initialisation leaves alone
webFrame == <<now, tz, users, user_sessions, reply, subscriptions, schedVars>>

\* one more, told apart up to "more than once"
Counted(n) == IF n < 2 THEN n + 1 ELSE n

\* leaving the with-block, by return or by exception: the lock is released
Released(w) == [w EXCEPT !.initialization_lock = "free"]

\* a caller enters initialize_application_sync (a request thread by way of
\* ensure_application_ready, which makes the same test of the flag first)
CallInitialize(c) ==
    /\ caller[c] = "idle"
    /\ caller' = [caller EXCEPT ![c] = "test"]
    /\ UNCHANGED <<webhook, webFrame>>

\* line 41, if not _application_initialized: outside the lock
OuterTest(c) ==
    /\ caller[c] = "test"
    /\ caller' = [caller EXCEPT ![c] =
                    IF webhook.application_initialized THEN "idle" ELSE "lock"]
    /\ UNCHANGED <<webhook, webFrame>>

\* line 42, with _initialization_lock: the caller waits until the lock is free
AcquireLock(c) ==
    /\ caller[c] = "lock"
    /\ webhook.initialization_lock = "free"
    /\ webhook' = [webhook EXCEPT !.initialization_lock = c]
    /\ caller' = [caller EXCEPT ![c] = "inner"]
    /\ UNCHANGED webFrame

\* mutant: no second test of the flag inside the lock
InnerTest_none(c) ==
    /\ caller[c] = "inner"
    /\ caller' = [caller EXCEPT ![c] = "loop"]
    /\ UNCHANGED <<webhook, webFrame>>

\* line 44, if not _application_initialized: inside the lock
InnerTest(c) ==
    /\ caller[c] = "inner"
    /\ IF webhook.application_initialized
       THEN /\ webhook' = Released(webhook)
            /\ caller' = [caller EXCEPT ![c] = "idle"]
       ELSE /\ caller' = [caller EXCEPT ![c] = "loop"]
            /\ UNCHANGED webhook
    /\ UNCHANGED webFrame

\* lines 47-50: if _event_loop is None, the loop is created, then its thread,
\* then the thread is started; asyncio.new_event_loop() or Thread.start() can
\* raise, and the exception leaves by the except clause, which re-raises it
EnsureLoop(c, result) ==
    /\ caller[c] = "loop"
    /\ IF webhook.event_loop # "None"
       THEN /\ result = "started"
            /\ caller' = [caller EXCEPT ![c] = "run"]
            /\ UNCHANGED webhook
       ELSE CASE result = "started" ->
                   /\ webhook' = [webhook EXCEPT
                          !.event_loop = "loop",
                          !.loop_thread = "running",
                          !.loops_created = Counted(@),
                          !.threads_created = Counted(@)]
                   /\ caller' = [caller EXCEPT ![c] = "run"]
              [] result = "start_raises" ->
                   /\ webhook' = Released([webhook EXCEPT
                          !.event_loop = "loop",
                          !.loop_thread = "not_started",
                          !.loops_created = Counted(@),
                          !.threads_created = Counted(@)])
                   /\ caller' = [caller EXCEPT ![c] = "idle"]
              [] result = "loop_raises" ->
                   /\ webhook' = Released(webhook)
                   /\ caller' = [caller EXCEPT ![c] = "idle"]
    /\ UNCHANGED webFrame

LoopResults == {"started", "start_raises", "loop_raises"}

\* lines 58-59: application.initialize() is run on the loop and the caller waits
\* for its result, which nobody delivers when the loop's thread does not run;
\* it completes (ok), or raises and the exception leaves the with-block
RunInitialize(c, ok) ==
    /\ caller[c] = "run"
    /\ webhook.loop_thread = "running"
    /\ IF ok
       THEN /\ webhook' = [webhook EXCEPT !.initialize_done = Counted(@)]
            /\ caller' = [caller EXCEPT ![c] = "set"]
       ELSE /\ webhook' = Released([webhook EXCEPT !.failed = TRUE])
            /\ caller' = [caller EXCEPT ![c] = "idle"]
    /\ UNCHANGED webFrame

\* line 61, _application_initialized = True, and the end of the with-block
SetInitialized(c) ==
    /\ caller[c] = "set"
    /\ webhook' = Released([webhook EXCEPT !.application_initialized = TRUE])
    /\ caller' = [caller EXCEPT ![c] = "idle"]
    /\ UNCHANGED webFrame

\* ---------------------------------------------------------------- specifications
Next ==
    \/ Tick
    \/ CycleStart
    \/ CheckItem
    \/ LoopDone
    \/ Cleanup
    \/ TaskReturn
    \/ \E p \in Procs : SendOk(p)
    \/ \E p \in Procs : SendFail(p)
    \/ \E p \in Procs : WriteOk(p)
    \/ \E p \in Procs : WriteFail(p)
    \/ \E id \in SubIds \cup {0} : OnDemand(id)
    \/ \E u \in UserIds, id \in SubIds : ConfirmDelete(u, id)

Spec == Init /\ [][Next]_vars

\* The periodic task alone on a store of live subscriptions: cycles run one after
\* another, with the clock and the channel's and the store's failures.
NextCycles ==
    \/ Tick
    \/ CycleStart
    \/ CheckItem
    \/ LoopDone
    \/ Cleanup
    \/ TaskReturn
    \/ SendOk("cycle")
    \/ SendFail("cycle")
    \/ WriteOk("cycle")
    \/ WriteFail("cycle")

SpecCycles == InitBatch /\ [][NextCycles]_vars

\* Cycles one after another on a store whose writes never fail, with the user's
\* delete.
NextReliable ==
    \/ Tick
    \/ CycleStart
    \/ CheckItem
    \/ LoopDone
    \/ Cleanup
    \/ TaskReturn
    \/ SendOk("cycle")
    \/ SendFail("cycle")
    \/ WriteOk("cycle")
    \/ \E u \in UserIds, id \in SubIds : ConfirmDelete(u, id)

SpecReliable == InitBatch /\ [][NextReliable]_vars

\* The store from empty: the add flow (of a known and of a new user, the date
\* the earliest that is accepted), the user's delete and the periodic task with a
\* channel and a store that do not fail.
InitStore == InitWith(EmptyStores)

NextStore ==
    \/ Tick
    \/ CycleStart
    \/ CheckItem
    \/ LoopDone
    \/ Cleanup
    \/ TaskReturn
    \/ SendOk("cycle")
    \/ WriteOk("cycle")
    \/ \E u \in UserIds, id \in SubIds : ConfirmDelete(u, id)
    \/ \E u \in {1, 3} : AddSubscription(u, now + 1)

SpecStore == InitStore /\ [][NextStore]_vars

\* The worker as worker.py starts it: beat, the broker queue and the pool
\* processes executing send_scheduled_reminders, with a channel that delivers and
\* a store whose writes commit.
NextWorker ==
    \/ Tick
    \/ Beat
    \/ \E w \in Pool : PoolStart(w)
    \/ \E w \in Pool : PoolCheck(w)
    \/ \E w \in Pool : PoolSendOk(w)
    \/ \E w \in Pool : PoolWriteOk(w)
    \/ \E w \in Pool : PoolLoopDone(w)
    \/ \E w \in Pool : PoolCleanup(w)
    \/ \E w \in Pool : PoolReturn(w)

SpecWorker == InitWorker /\ [][NextWorker]_vars

\* The steps of the pool processes: the worker keeps taking messages while a
\* process is free, and a running task keeps going (the channel answers or
\* times out).
NextPool ==
    \/ \E w \in Pool : PoolStart(w)
    \/ \E w \in Pool : PoolCheck(w)
    \/ \E w \in Pool : PoolSendOk(w)
    \/ \E w \in Pool : PoolWriteOk(w)
    \/ \E w \in Pool : PoolLoopDone(w)
    \/ \E w \in Pool : PoolCleanup(w)
    \/ \E w \in Pool : PoolReturn(w)

SpecWorkerFair == SpecWorker /\ WF_vars(NextPool)

\* The periodic task on a store whose reads can fail: the selection query and
\* the user query of the for-loop raise or answer; the channel fails or delivers.
NextFaulty ==
    \/ Tick
    \/ CycleStart
    \/ SelectFail
    \/ CheckItem
    \/ UserReadFail
    \/ LoopDone
    \/ Cleanup
    \/ TaskReturn
    \/ TaskRaise
    \/ SendOk("cycle")
    \/ SendFail("cycle")
    \/ WriteOk("cycle")

SpecFaulty == InitBatch /\ [][NextFaulty]_vars

\* The store from empty on a host in any time zone: the add flow of the active
\* user with the dates it accepts, and the periodic task with a channel and a
\* store that do not fail.
InitZone ==
    /\ InitScheduler(EmptyStores)
    /\ start_date = [s \in SubIds |-> 0]
    /\ notes = [s \in SubIds |-> "NULL"]
    /\ text = NoText
    /\ tz \in ZoneOffsets
    /\ InitWebhook
    /\ user_sessions = [u \in UserIds |-> NoSession]
    /\ reply = NoReply
    /\ subscriptions = <<>>

NextZone ==
    \/ Tick
    \/ CycleStart
    \/ CheckItem
    \/ LoopDone
    \/ Cleanup
    \/ TaskReturn
    \/ SendOk("cycle")
    \/ WriteOk("cycle")
    \/ \E d \in Days : AddSubscription(1, ParseDate(d))

SpecZone == InitZone /\ [][NextZone]_vars

\* Reminders on demand for a subscription of any owner, end and note, set at the
\* clock's first instant; the other rows are deleted ones.
NoteValues == {"NULL", "", "note"}

MessageStores ==
    {[s \in SubIds |->
        IF s = 1
        THEN [NewRow(u, "2_days", 0) EXCEPT !.end_date = e]
        ELSE DeletedRow] :
      u \in UserIds, e \in 1..(2 * TicksPerDay)}

InitMessage ==
    /\ InitScheduler(MessageStores)
    /\ start_date = [s \in SubIds |-> 0]
    /\ notes \in [SubIds -> NoteValues]
    /\ \A s \in SubIds \ {1} : notes[s] = "NULL"
    /\ text = NoText
    /\ tz = 0
    /\ InitWebhook
    /\ user_sessions = [u \in UserIds |-> NoSession]
    /\ reply = NoReply
    /\ subscriptions = <<>>

NextMessage ==
    \/ Tick
    \/ \E id \in SubIds, ok \in BOOLEAN : RemindNow(id, ok)

SpecMessage == InitMessage /\ [][NextMessage]_vars

\* The bot's conversation with the free user, on an empty table and at one
\* instant: the user starts the add flow, answers each prompt with a text of the
\* kind asked for or with one that is refused (a date is the earliest day, which
\* is past, or the last), presses the buttons of the flow and deletes rows; the
\* admin grants PRO.
InitFlow == InitWith(EmptyStores)

Answers(step) ==
    CASE step = "awaiting_service_name" -> {Word, LongText}
      [] step = "awaiting_cost"         -> {Word, SkipText}
      [] step = "awaiting_end_date"     -> {Word, DateText(0), DateText(LastDay)}
      [] OTHER                          -> {}

\* what a user can send as a text
Texts == {Word, LongText, SkipText} \cup {DateText(d) : d \in Days}

\* the user answers the prompt of the session's step
Answer(u, txt) ==
    /\ txt \in Answers(user_sessions[u].step)
    /\ Room(u, txt, MaxRows)
    /\ handle_text_input(u, txt)

NextFlow ==
    \/ add_subscription_flow(1)
    \/ add_first_subscription(1)
    \/ \E txt \in Texts : Answer(1, txt)
    \/ skip_cost(1)
    \/ cancel_add(1)
    \/ \E ty \in {"trial", "recurring"} : subscription_type(1, ty)
    \/ \E setting \in {"7", "3", "1", "2"} : reminder_setting(1, setting)
    \/ \E id \in 1..MaxRows : confirm_delete(1, id)
    \/ admin_grant_pro(ADMIN_USER_ID, IdArg(1))

SpecFlow == InitFlow /\ [][NextFlow]_vars

\* The plan limit: the free user and a user the bot has not seen yet add
\* subscriptions (no cost, the last day) and delete them; the admin grants PRO to
\* the new user.
LimitUsers == {1, 3}

\* the user answers the prompt with what is asked for: a name, 'skip', the last day
Complete(u) ==
    /\ user_sessions[u].step # "none"
    /\ Room(u, DateText(LastDay), MaxRows)
    /\ handle_text_input(u, CASE user_sessions[u].step = "awaiting_service_name" -> Word
                               [] user_sessions[u].step = "awaiting_cost" -> SkipText
                               [] OTHER -> DateText(LastDay))

NextLimit ==
    \/ \E u \in LimitUsers : add_subscription_flow(u)
    \/ \E u \in LimitUsers : add_first_subscription(u)
    \/ \E u \in LimitUsers : Complete(u)
    \/ \E u \in LimitUsers, id \in 1..MaxRows : confirm_delete(u, id)
    \/ admin_grant_pro(ADMIN_USER_ID, IdArg(3))

SpecLimit == InitFlow /\ [][NextLimit]_vars

\* The admin commands sent by every user, next to the add flows of the free
\* user and of a user the bot has not seen yet.
NextAdmin ==
    \/ \E c \in UserIds : admin_panel(c)
    \/ \E c \in UserIds : admin_stats(c)
    \/ \E c \in UserIds : admin_broadcast(c)
    \/ \E c \in UserIds, arg \in GrantArgs : admin_grant_pro(c, arg)
    \/ \E u \in LimitUsers : add_subscription_flow(u)
    \/ \E u \in LimitUsers : Complete(u)
    \/ \E u \in LimitUsers : cancel_add(u)

SpecAdmin == InitFlow /\ [][NextAdmin]_vars

\* the user sends a text, whatever the step
SendText(u, txt) ==
    /\ Room(u, txt, MaxRows)
    /\ handle_text_input(u, txt)

\* The form on a host in any time zone, while the clock runs: the free user
\* starts the flow, sends every kind of text at every step (and without a
\* session), skips the cost and cancels.
NextForm ==
    \/ Tick
    \/ add_subscription_flow(1)
    \/ \E txt \in Texts : SendText(1, txt)
    \/ skip_cost(1)
    \/ cancel_add(1)

SpecForm == InitZone /\ [][NextForm]_vars

\* The on-demand task alone, on a store with one live subscription of any
\* shape: calls for every id, the channel's and the store's failures, the clock
\* and the user's delete.
NextOnDemand ==
    \/ Tick
    \/ \E id \in SubIds \cup {0} : OnDemand(id)
    \/ SendOk("od")
    \/ SendFail("od")
    \/ WriteOk("od")
    \/ WriteFail("od")
    \/ \E u \in UserIds, id \in SubIds : ConfirmDelete(u, id)

SpecOnDemand == Init /\ [][NextOnDemand]_vars

\* Deletes: two users add subscriptions and send the delete and the
\* confirm-delete callbacks with every id, their own, the other's and ids of no
\* row.
NextDelete ==
    \/ \E u \in LimitUsers : add_subscription_flow(u)
    \/ \E u \in LimitUsers : Complete(u)
    \/ \E u \in LimitUsers, id \in 1..MaxRows : delete_subscription(u, id)
    \/ \E u \in LimitUsers, id \in 1..MaxRows : confirm_delete(u, id)

SpecDelete == InitFlow /\ [][NextDelete]_vars

\* The plan limit put to the test: the free user starts flows, answers each
\* prompt with what is asked for (the date a day that is soon past or the last
\* day), cancels and deletes, while the clock runs and the reconcile step
\* deactivates what has expired; the table has room for one row more than the
\* limit.
PlanAnswers(step) ==
    CASE step = "awaiting_service_name" -> {Word}
      [] step = "awaiting_cost"         -> {SkipText}
      [] step = "awaiting_end_date"     -> {DateText(1), DateText(LastDay)}
      [] OTHER                          -> {}

LimitText(u, txt) ==
    /\ txt \in PlanAnswers(user_sessions[u].step)
    /\ Room(u, txt, MaxAdds)
    /\ handle_text_input(u, txt)

NextPlan ==
    \/ Tick
    \/ add_subscription_flow(1)
    \/ \E txt \in Texts : LimitText(1, txt)
    \/ cancel_add(1)
    \/ \E id \in 1..MaxAdds : confirm_delete(1, id)
    \/ cleanup_expired_subscriptions

SpecPlan == InitFlow /\ [][NextPlan]_vars

\* Cycles on a store with one live subscription of every lead time, with the
\* messages they send: the clock can move between the due test of the for-loop
\* and send_reminder's own reading of it.
NextLead ==
    \/ Tick
    \/ CycleStart
    \/ CheckItem
    \/ LoopDone
    \/ Cleanup
    \/ TaskReturn
    \/ SendReminder("cycle")
    \/ SendFail("cycle")
    \/ WriteOk("cycle")

SpecLead == Init /\ [][NextLead]_vars

\* The web process: the threads that call initialize_application_sync, in any
\* interleaving, each as often as it likes.
NextWebhook ==
    \/ \E c \in Callers : CallInitialize(c)
    \/ \E c \in Callers : OuterTest(c)
    \/ \E c \in Callers : AcquireLock(c)
    \/ \E c \in Callers : InnerTest(c)
    \/ \E c \in Callers, result \in LoopResults : EnsureLoop(c, result)
    \/ \E c \in Callers, ok \in BOOLEAN : RunInitialize(c, ok)
    \/ \E c \in Callers : SetInitialized(c)

SpecWebhook == InitFlow /\ [][NextWebhook]_vars

\* ================================================================ claims
\* The reminder policy table of the specification (4.1), days before expiry.
PolicyDays(ty) ==
    IF ty = "1_day" THEN 1
    ELSE IF ty = "3_days" THEN 3
    ELSE IF ty = "7_days" THEN 7
    ELSE 2

\* The trigger instant: end instant minus lead time.
TriggerInstant(s) == subs[s].end_date - PolicyDays(subs[s].reminder_type) * TicksPerDay

\* The owning user's record is missing or inactive.
BadOwner(s) ==
    \/ ~users[subs[s].user_id].exists
    \/ ~users[subs[s].user_id].is_active

InBatch(b, s) == \E i \in 1..Len(b) : b[i] = s

\* A step of the periodic task.
CycleStep == pc'["cycle"] # pc["cycle"] \/ idx' # idx

\* The step in which the periodic task runs its selection query.
SelectStep == pc["cycle"] = "idle" /\ pc'["cycle"] = "check"

\* The step in which the for-loop decides about batch[idx].
DecideStep ==
    /\ pc["cycle"] = "check"
    /\ idx <= Len(batch)
    /\ (pc'["cycle"] # "check" \/ idx' # idx)

\* The step in which task p's send_reminder returns, and what it returns.
SendReturns(p) == pc[p] \in {"send", "write"} /\ pc'[p] \notin {"send", "write"}

ReturnedTrue(p) ==
    IF p = "cycle" THEN reminders_sent' = reminders_sent + 1 ELSE odret'.returned /\ odret'.success

\* C1: in a sequence of periodic cycles in which every persistence write succeeds,
\* at most one reminder message is delivered for any one subscription.
C1_AtMostOnce == \A s \in SubIds : sent[s] <= 1

\* a later cycle has run to its end over a subscription reminded by an earlier one
C1_Witness ==
    \E s \in SubIds :
        /\ sent[s] = 1
        /\ subs[s].reminded_at # NULL
        /\ subs[s].is_active
        /\ pc["cycle"] = "cleanup"
        /\ outcome[s] = "none"

\* C2: a cycle selects every active, not yet reminded subscription, and its
\* decision about one whose owner is active dispatches it if and only if
\* now >= end instant - lead time.
C2_DueExactly ==
    [][/\ SelectStep =>
            \A s \in SubIds :
              (subs[s].is_active /\ subs[s].reminded_at = NULL) => InBatch(batch', s)
       /\ DecideStep =>
            LET s == batch[idx] IN
              (subs[s].is_active /\ subs[s].reminded_at = NULL /\ ~BadOwner(s))
                => ((pc'["cycle"] = "send" /\ cur'["cycle"] = s)
                      <=> (now >= TriggerInstant(s)))
      ]_vars

\* a subscription is being dispatched at its trigger instant exactly, an instant
\* after the clock's first
C2_Witness ==
    /\ pc["cycle"] = "send"
    /\ now = TriggerInstant(cur["cycle"])
    /\ now > 0

\* C3: the selection query of a cycle never returns a subscription whose
\* reminded-at is set, whatever the current time is.
C3_NeverSelected ==
    [][SelectStep =>
         \A i \in 1..Len(batch') : subs[batch'[i]].reminded_at = NULL
      ]_vars

\* a cycle has selected and left out an active subscription that is reminded
C3_Witness ==
    /\ pc["cycle"] = "check"
    /\ \E s \in SubIds :
        /\ subs[s].is_active
        /\ subs[s].reminded_at # NULL
        /\ ~InBatch(batch, s)

\* C4: no step of a cycle sends a reminder for a subscription whose owning user
\* record is missing or inactive, dispatches it, or writes its reminded-at.
C4_NoSendToInactive ==
    [][CycleStep =>
         \A s \in SubIds :
           BadOwner(s) =>
             /\ sent'[s] = sent[s]
             /\ subs'[s].reminded_at = subs[s].reminded_at
             /\ cur'["cycle"] # s
      ]_vars

\* a cycle has passed over a subscription that was due from the first instant and
\* whose owner is missing or inactive
C4_Witness ==
    \E s \in SubIds :
        /\ BadOwner(s)
        /\ TriggerInstant(s) <= 0
        /\ outcome[s] = "Skipped"
        /\ sent[s] = 0
        /\ subs[s].reminded_at = NULL

\* C5 as claimed: send_reminder returns Sent, with reminded-at set to the current
\* time, exactly when the channel send succeeded; when the send fails it returns
\* Failed and leaves reminded-at null.
C5_Original ==
    [][\A p \in Procs :
         SendReturns(p) =>
           LET s == cur[p] IN
             /\ ReturnedTrue(p) <=> (pc[p] = "write")
             /\ (pc[p] = "write") => (subs'[s].reminded_at = now)
             /\ (pc[p] = "send" /\ subs[s].reminded_at = NULL)
                   => subs'[s].reminded_at = NULL
      ]_vars

\* C5 amended: send_reminder returns Sent only after the channel send succeeded,
\* and exactly when the reminded-at write then committed, reminded-at being the
\* current time; when the send or the write fails it returns Failed and leaves
\* reminded-at as it was.
C5_SentIffWritten ==
    [][\A p \in Procs :
         SendReturns(p) =>
           LET s == cur[p] IN
             IF ReturnedTrue(p)
             THEN /\ pc[p] = "write"
                  /\ subs'[s].reminded_at = now
             ELSE /\ subs'[s].reminded_at = subs[s].reminded_at
                  /\ subs' = subs
      ]_vars

\* the channel delivered a message, the write failed, and the dispatch is
\* recorded as failed with reminded-at still null
C5_Witness ==
    \E s \in SubIds :
        /\ outcome[s] = "WriteFailed"
        /\ sent[s] >= 1
        /\ subs[s].reminded_at = NULL

\* C6 as claimed: a subscription whose send failed in one cycle is selected again
\* by the next cycle (here: a next cycle that begins before the clock has moved
\* since the failing cycle began).
C6_Original ==
    [][(SelectStep /\ steady) =>
         \A s \in SubIds : outcome[s] = "SendFailed" => InBatch(batch', s)
      ]_vars

\* C6 amended: a subscription whose send failed in one cycle keeps reminded-at
\* null and is selected again by the next cycle, unless reconcile deactivated it
\* because its end instant had passed.
C6_RetriedUnlessExpired ==
    [][SelectStep =>
         \A s \in SubIds :
           outcome[s] = "SendFailed" =>
             /\ subs[s].reminded_at = NULL
             /\ \/ InBatch(batch', s)
                \/ (~subs[s].is_active /\ subs[s].end_date < now)
      ]_vars

\* the cycle after one whose sends all failed is dispatching again: no message
\* was ever delivered, and the previous cycle, at this same instant, had a failure
C6_Witness ==
    /\ repeat = "same_time"
    /\ steady
    /\ pc["cycle"] = "send"
    /\ \A s \in SubIds : sent[s] = 0

\* when the for-loop is over, every item of the batch has been decided, and every
\* item whose dispatch was Sent is marked reminded
C7_AllDecided ==
    pc["cycle"] \in {"cleanup", "return"} =>
        \A i \in 1..Len(batch) :
            /\ outcome[batch[i]] # "none"
            /\ (outcome[batch[i]] = "Sent") => (subs[batch[i]].reminded_at # NULL)

\* an item that is due when the for-loop decides about it is dispatched
C7_DueDispatched ==
    (DecideStep /\ now >= TriggerInstant(batch[idx]) /\ ~BadOwner(batch[idx]))
        => pc'["cycle"] = "send"

\* a failed dispatch hands the for-loop on to the next item of the same batch
C7_LoopGoesOn ==
    (SendReturns("cycle") /\ ~ReturnedTrue("cycle"))
        => (pc'["cycle"] = "check" /\ idx' = idx + 1 /\ batch' = batch)

\* C7: a failed send does not abort the cycle: the for-loop goes on with the next
\* item, and when it is over every item of the batch has been decided, every item
\* that was due when decided has been dispatched, and every item whose dispatch
\* was Sent is marked reminded.
C7_FailureIsolation ==
    []C7_AllDecided /\ [][C7_DueDispatched /\ C7_LoopGoesOn]_vars

\* the send of the first item failed and the second item was sent and marked
C7_Witness ==
    /\ pc["cycle"] = "cleanup"
    /\ Len(batch) >= 2
    /\ outcome[batch[1]] = "SendFailed"
    /\ outcome[batch[2]] = "Sent"
    /\ subs[batch[2]].reminded_at # NULL

\* C8: process_pending_reminders returns the number of subscriptions it reminded:
\* the dispatches whose outcome was Sent, which are the rows of its batch that it
\* marked reminded.
C8_CountsSent ==
    pc["cycle"] \in {"cleanup", "return"} =>
        /\ reminders_sent = Cardinality({s \in SubIds : outcome[s] = "Sent"})
        /\ reminders_sent =
             Cardinality({s \in SubIds : InBatch(batch, s) /\ subs[s].reminded_at # NULL})

\* a cycle returns 1 after two dispatches, one of which failed
C8_Witness ==
    /\ pc["cycle"] = "cleanup"
    /\ reminders_sent = 1
    /\ \E s \in SubIds : outcome[s] \in {"SendFailed", "WriteFailed"}

\* C9 as claimed: a cycle that runs with no time change since the previous cycle
\* began sends nothing and returns 0.
C9_Original ==
    (pc["cycle"] = "cleanup" /\ steady /\ repeat # "no") =>
        /\ reminders_sent = 0
        /\ \A s \in SubIds : outcome[s] \notin {"Sent", "WriteFailed"}

\* C9 amended: a cycle that runs with no time change since the previous cycle
\* began, when no dispatch of the previous cycle failed, dispatches nothing,
\* sends nothing and returns 0.
C9_SecondCallIdle ==
    (pc["cycle"] # "idle" /\ steady /\ repeat = "same_time_clean") =>
        /\ reminders_sent = 0
        /\ pc["cycle"] \notin {"send", "write"}
        /\ \A s \in SubIds : outcome[s] \in {"none", "Skipped"}

\* the second of two cycles at one instant is over, the first having sent a
\* reminder at that instant
C9_Witness ==
    /\ pc["cycle"] = "cleanup"
    /\ steady
    /\ repeat = "same_time_clean"
    /\ \E s \in SubIds : sent[s] = 1 /\ subs[s].reminded_at = now

\* C10: no message is delivered for a subscription whose reminded-at is already
\* set, by the periodic task or by the on-demand task.
C10_NoResend ==
    [][\A s \in SubIds : subs[s].reminded_at # NULL => sent'[s] = sent[s]]_vars

\* The step in which the periodic task's cleanup_expired_subscriptions runs.
ReconcileStep == pc["cycle"] = "cleanup" /\ pc'["cycle"] = "return"

\* A step of the reminder phase: of process_pending_reminders, or of a
\* send_reminder of either task.
ReminderPhaseStep ==
    \/ (CycleStep /\ pc["cycle"] \in {"idle", "check", "send", "write"})
    \/ (pc["od"] \in {"send", "write"} /\ pc'["od"] # pc["od"])

\* C11: reconcile deactivates exactly the subscriptions that are active with
\* end instant < now, all in its one step, and returns how many it deactivated.
C11_DeactivatesExpired ==
    [][ReconcileStep =>
         /\ \A s \in SubIds :
               subs'[s].is_active <=> (subs[s].is_active /\ ~(subs[s].end_date < now))
         /\ expired_cleaned' =
               Cardinality({s \in SubIds : subs[s].is_active /\ ~subs'[s].is_active})
      ]_vars

\* a reconcile has deactivated one subscription whose end instant had passed,
\* left another active, and returned 1
C11_Witness ==
    /\ pc["cycle"] = "return"
    /\ steady
    /\ expired_cleaned = 1
    /\ \E s, r \in SubIds :
         /\ ~subs[s].is_active /\ subs[s].end_date < now
         /\ subs[r].is_active /\ subs[r].end_date >= now

\* C12: reconcile changes no reminded-at and no subscription that is not active
\* and past its end; no step of the reminder phase changes an active flag.
C12_Frame ==
    [][/\ ReconcileStep =>
            \A s \in SubIds :
              /\ subs'[s].reminded_at = subs[s].reminded_at
              /\ ~(subs[s].is_active /\ subs[s].end_date < now) => subs'[s] = subs[s]
       /\ ReminderPhaseStep =>
            \A s \in SubIds : subs'[s].is_active = subs[s].is_active
      ]_vars

\* a reconcile has deactivated a subscription that had been reminded, and its
\* reminded-at is still set
C12_Witness ==
    /\ pc["cycle"] = "return"
    /\ expired_cleaned = 1
    /\ \E s \in SubIds :
         /\ ~subs[s].is_active
         /\ subs[s].end_date < now
         /\ subs[s].reminded_at # NULL
         /\ sent[s] >= 1

\* C13: a reconcile leaves no row that a reconcile at the same instant would
\* select, and the reconcile of a cycle that began at the instant the previous
\* cycle began, the clock not having moved, changes no row and returns 0.
C13_ReconcileIdempotent ==
    [][ReconcileStep =>
         /\ {s \in SubIds : subs'[s].is_active /\ subs'[s].end_date < now} = {}
         /\ (steady /\ repeat # "no") => (subs' = subs /\ expired_cleaned' = 0)
      ]_vars

\* the second of two reconciles at one instant has returned 0, a subscription
\* being inactive whose end instant has passed
C13_Witness ==
    /\ pc["cycle"] = "return"
    /\ steady
    /\ repeat # "no"
    /\ expired_cleaned = 0
    /\ \E s \in SubIds : ~subs[s].is_active /\ subs[s].end_date < now

\* C14 as claimed: after reconcile no subscription is active with
\* now >= end instant.
C14_Original ==
    [][ReconcileStep =>
         \A s \in SubIds : ~(subs'[s].is_active /\ now >= subs'[s].end_date)
      ]_vars

\* C14 amended: after reconcile no subscription is active with now > end instant
\* (one whose end instant is now stays active).
C14_NoneActivePastEnd ==
    [][ReconcileStep =>
         \A s \in SubIds : ~(subs'[s].is_active /\ now > subs'[s].end_date)
      ]_vars

\* a reconcile has run, has deactivated a subscription past its end, and a
\* subscription whose end instant is the current instant is still active
C14_Witness ==
    /\ pc["cycle"] = "return"
    /\ steady
    /\ expired_cleaned >= 1
    /\ \E s \in SubIds : subs[s].is_active /\ subs[s].end_date = now

\* C15: once a subscription's reminded-at is set, no step clears it or rewrites
\* it to an earlier value, and no step of a periodic cycle that did not select
\* the subscription (as no cycle begun after it was set does) changes it.
C15_Monotonic ==
    [][\A s \in SubIds :
         subs[s].reminded_at # NULL =>
           /\ subs'[s].reminded_at # NULL
           /\ subs'[s].reminded_at >= subs[s].reminded_at
           /\ (SelectStep \/ (CycleStep /\ ~InBatch(batch, s)))
                 => subs'[s].reminded_at = subs[s].reminded_at
      ]_vars

\* a cycle begun after a subscription was reminded has passed over it, and an
\* on-demand dispatch, its message delivered, is about to write reminded-at
\* again at a later instant
C15_Witness ==
    \E s \in SubIds :
        /\ subs[s].reminded_at # NULL
        /\ subs[s].reminded_at < now
        /\ subs[s].is_active
        /\ pc["cycle"] = "cleanup"
        /\ outcome[s] = "none"
        /\ pc["od"] = "write"
        /\ cur["od"] = s

\* a message has been delivered for every subscription whose reminded-at is set,
\* and for the subscription of every send_reminder that has reached its write
C20_Delivered ==
    /\ \A s \in SubIds : subs[s].reminded_at # NULL => sent[s] >= 1
    /\ \A p \in Procs : pc[p] = "write" => sent[cur[p]] >= 1

\* send_reminder reaches its write in the step in which the channel delivers its
\* message, and reminded-at changes only in a later step of that send_reminder
C20_WriteAfterSend ==
    /\ \A p \in Procs :
         (pc[p] # "write" /\ pc'[p] = "write")
            => (pc[p] = "send" /\ sent'[cur[p]] = sent[cur[p]] + 1 /\ subs' = subs)
    /\ \A s \in SubIds :
         subs'[s].reminded_at # subs[s].reminded_at
            => (sent'[s] = sent[s] /\ \E p \in Procs : pc[p] = "write" /\ cur[p] = s)

\* C20: in every dispatch the channel send comes before the reminded-at write,
\* the write only after the send was confirmed: reminded-at is never set for a
\* subscription for which no message was delivered.
C20_SendBeforeWrite ==
    []C20_Delivered /\ [][C20_WriteAfterSend]_vars

\* a subscription is reminded, by a dispatch of the periodic task, after exactly
\* one delivered message
C20_Witness ==
    \E s \in SubIds :
        /\ subs[s].reminded_at # NULL
        /\ sent[s] = 1
        /\ outcome[s] = "Sent"

\* C16: no step sets an inactive subscription back to active, and no step removes
\* a subscription record from the table.
C16_NeverReactivated ==
    [][\A s \in rows :
         /\ s \in rows'
         /\ ~subs[s].is_active => ~subs'[s].is_active
      ]_vars

\* reconcile has deactivated a subscription, the user has deleted another, and
\* both records are in the table
C16_Witness ==
    /\ pc["cycle"] = "return"
    /\ steady
    /\ expired_cleaned = 1
    /\ \E s, r \in rows :
         /\ ~subs[s].is_active /\ subs[s].end_date < now
         /\ ~subs[r].is_active /\ subs[r].end_date > now

\* The pool processes that are executing send_scheduled_reminders.
Running == {w \in Pool : wpc[w] # "idle"}

\* The step in which beat's schedule entry ticks.
BeatStep == beats' = beats + 1

\* The subscription pool process w is dispatching.
Dispatching(w) == wbatch[w][widx[w]]

\* C17: at most one cycle is in flight at any instant, and no pool process
\* delivers a message for a subscription for which one was delivered already.
C17_OneCycleInFlight ==
    /\ [](Cardinality(Running) <= 1)
    /\ [][\A w \in Pool :
            (wpc[w] = "send" /\ wpc'[w] = "write") => sent[Dispatching(w)] = 0
         ]_vars

\* C18: a tick of the schedule entry that arrives while a cycle is running puts
\* no message in the queue, and the cycles pending (queued or in flight) are at
\* most one.
C18_TickDropped ==
    [][(BeatStep /\ Running # {}) =>
         /\ queue' = queue
         /\ queue' + Cardinality(Running) <= 1
      ]_vars

\* every tick of the schedule entry is one message, and every message taken from
\* the queue is one execution of the task
C19_OnePerTick == beats = queue + started

\* the reconcile of a cycle starts after its for-loop is exhausted, and a cycle
\* that has run its reconcile holds both counts
C19_Ordered ==
    \A w \in Pool :
        /\ wpc[w] \in {"cleanup", "return"} =>
              /\ widx[w] > Len(wbatch[w])
              /\ wresult[w].reminders_sent # NULL
        /\ wpc[w] \in {"check", "send", "write", "cleanup"} =>
              wresult[w].expired_cleaned = NULL
        /\ wpc[w] = "return" => wresult[w].expired_cleaned # NULL

\* a pool process takes a message only when idle, runs the reminder phase, then
\* the reconcile, then returns; only a reconcile deactivates; the counts of a
\* running task are not lost
C19_Steps ==
    \A w \in Pool :
        /\ (wpc'[w] # wpc[w]) =>
              <<wpc[w], wpc'[w]>> \in
                 {<<"idle", "check">>, <<"check", "send">>, <<"send", "write">>,
                  <<"write", "check">>, <<"check", "cleanup">>,
                  <<"cleanup", "return">>, <<"return", "idle">>}
        /\ (wpc[w] # "cleanup") =>
              \A s \in SubIds : subs[s].is_active /\ ~subs'[s].is_active
                                   => \E v \in Pool : wpc[v] = "cleanup"
        /\ (wpc[w] # "idle" /\ wpc'[w] # "idle") =>
              /\ wresult[w].reminders_sent # NULL
                    => wresult'[w].reminders_sent >= wresult[w].reminders_sent
              /\ wresult[w].expired_cleaned # NULL
                    => wresult'[w].expired_cleaned = wresult[w].expired_cleaned

AbortStep == pc["cycle"] # "raised" /\ pc'["cycle"] = "raised"

\* C21: a read failure of the store aborts the cycle and is raised to the caller,
\* and at the moment of the abort the cycle has written nothing: no reminded-at
\* was set by it and no subscription was deactivated by it; a failed send never
\* raises out of the cycle.
C21_AbortBeforeAnyWrite ==
    /\ [][AbortStep =>
            /\ \A s \in SubIds : outcome[s] # "Sent"
            /\ expired_cleaned = NULL
            /\ subs' = subs]_vars
    /\ [][(pc["cycle"] = "send" /\ sent' = sent /\ pc'["cycle"] # "send")
            => pc'["cycle"] = "check"]_vars

\* ---------------------------------------------------------------- C22
\* A row whose end instant is not after its start instant.
Malformed(s) == s \in rows /\ subs[s].end_date <= start_date[s]

\* C22: a malformed subscription (end instant <= start instant) is skipped by the
\* cycle: no reminder is sent for it and its reminded-at stays null.
C22_MalformedSkipped ==
    \A s \in SubIds : Malformed(s) => sent[s] = 0 /\ subs[s].reminded_at = NULL

\* ---------------------------------------------------------------- C23
\* What can be passed as a category: the members of ReminderType, None, and a
\* value that is no member.
Categories == ReminderTypeColumn \cup {"unknown"}

\* C23: get_reminder_offset_days is total: ONE_DAY gives 1, TWO_DAYS 2,
\* THREE_DAYS 3, SEVEN_DAYS 7, and an unknown or a missing (None) category gives
\* 2; the due instant of every row of the store is computed with these days.
C23_PolicyTotal ==
    /\ get_reminder_offset_days("1_day") = 1
    /\ get_reminder_offset_days("2_days") = 2
    /\ get_reminder_offset_days("3_days") = 3
    /\ get_reminder_offset_days("7_days") = 7
    /\ \A c \in Categories \ ReminderTypes : get_reminder_offset_days(c) = 2
    /\ \A c \in Categories : get_reminder_offset_days(c) \in {1, 2, 3, 7}
    /\ \A s \in SubIds :
         subs[s].reminder_type \notin ReminderTypes
           => reminder_date(subs[s]) = subs[s].end_date - 2 * TicksPerDay

\* a subscription whose category is missing is being dispatched by a cycle at
\* the instant two days before its end, an instant after the clock's first
C23_Witness ==
    \E s \in SubIds :
        /\ subs[s].reminder_type = "NULL"
        /\ pc["cycle"] = "send" /\ cur["cycle"] = s
        /\ now = subs[s].end_date - 2 * TicksPerDay
        /\ now > 0

\* ---------------------------------------------------------------- C24, C25
\* The step in which send_reminder hands a message for subscription s to the
\* channel.
MessageStep(s) ==
    /\ text'.subscription_id = s
    /\ text' # text \/ sent'[s] # sent[s]

\* C24: the reminder message carries the subscription's note if and only if the
\* owning user is on the PRO plan and the note is non-empty; the message of a
\* FREE user never carries it.
C24_NoteIffPro ==
    [][\A s \in SubIds :
         MessageStep(s) =>
           LET u == users[subs[s].user_id] IN
             /\ (text'.notes_line # "ABSENT")
                  <=> (u.plan_type = "pro" /\ notes[s] \notin {"NULL", ""})
             /\ text'.notes_line # "ABSENT" => text'.notes_line = notes[s]
             /\ u.plan_type = "free" => text'.notes_line = "ABSENT"
             /\ text'.chat_id = subs[s].user_id
      ]_vars

\* a reminder carrying the note was delivered to the PRO user
C24_Witness ==
    /\ text.notes_line = "note"
    /\ text.chat_id = 2
    /\ users[2].plan_type = "pro"
    /\ sent[text.subscription_id] = 1
    /\ notes[text.subscription_id] = "note"

\* The days-remaining value of a message is the floor of the time to the end in
\* days, written with "day" exactly when it is 1.
FloorDays(s) ==
    /\ text'.days_left * TicksPerDay <= subs[s].end_date - now
    /\ subs[s].end_date - now < (text'.days_left + 1) * TicksPerDay
    /\ (text'.unit = "day") <=> (text'.days_left = 1)
    /\ text'.unit \in {"day", "days"}

\* The subscription was set to end 2 days after the instant it was set at.
EndsInTwoDays(s) == subs[s].end_date = start_date[s] + 2 * TicksPerDay

C26_EndAfterStart ==
    \A s \in rows : subs[s].end_date > start_date[s]

\* ---------------------------------------------------------------- C27
\* The step in which the add flow of user u inserts a row.
InsertStep(u) ==
    /\ Len(subscriptions') = Len(subscriptions) + 1
    /\ subscriptions'[Len(subscriptions')].user_id = u

\* The plan get_user_by_telegram_id finds for user u: FREE for a user created now.
PlanOf(u) == IF users[u].exists THEN users[u].plan_type ELSE "free"

\* C27: a subscription created by a user who is on the FREE plan at creation
\* time has lead time TWO_DAYS, whatever the user sent during the add flow; the
\* rows of a user who is still FREE are all TWO_DAYS.
C27_FreeGetsTwoDays ==
    /\ [](\A i \in 1..Len(subscriptions) :
            PlanOf(subscriptions[i].user_id) = "free"
              => subscriptions[i].reminder_type = "2_days")
    /\ [][\A u \in UserIds :
            (InsertStep(u) /\ PlanOf(u) = "free")
              => subscriptions'[Len(subscriptions')].reminder_type = "2_days"]_vars

\* the free user has completed an add flow and pressed a button of the reminder
\* settings in the flow that follows
C27_Witness ==
    /\ users[1].plan_type = "free"
    /\ \E i \in 1..Len(subscriptions) :
          subscriptions[i].user_id = 1 /\ subscriptions[i].reminder_type = "2_days"
    /\ user_sessions[1].reminder_type = "7_days"
    /\ Len(subscriptions) = 2

\* ---------------------------------------------------------------- C28
\* The step in which _handle_reminder_setting answers user u, the session then
\* holding lead time c.
SettingStep(u, c) ==
    /\ reply'.chat_id = u /\ reply'.msg = "settings_saved_added"
    /\ user_sessions'[u].reminder_type = c
    /\ reply' # reply \/ user_sessions' # user_sessions

\* C28: when a PRO user selects 7, 3 or 1 days through the reminder-settings
\* callback, which replies that the subscription has been added, a subscription
\* of that user carrying the selected lead time exists afterwards.
C28_ChoiceStored ==
    [][\A u \in UserIds, c \in {"7_days", "3_days", "1_day"} :
         (SettingStep(u, c) /\ users'[u].plan_type = "pro")
           => \E i \in 1..Len(subscriptions') :
                 /\ subscriptions'[i].user_id = u
                 /\ subscriptions'[i].reminder_type = c
      ]_vars

\* ---------------------------------------------------------------- C29
\* The step in which add_subscription_flow (or the button that does the same)
\* answers user u.
AddFlowStep(u) ==
    /\ reply'.chat_id = u /\ reply'.msg \in {"limit", "ask_service_name"}
    /\ reply' # reply \/ user_sessions'[u] # user_sessions[u]

\* The active subscriptions of user u.
ActiveOf(u) ==
    {i \in 1..Len(subscriptions) :
        subscriptions[i].user_id = u /\ subscriptions[i].is_active}

\* C29: can_add_subscription is true for a PRO user, and for a FREE user if and
\* only if the user has fewer than 3 active subscriptions; when it is false,
\* add_subscription_flow replies with the limit message and opens no session,
\* and when it is true the flow opens a session awaiting the service name.
C29_PlanLimit ==
    /\ [](\A u \in UserIds :
            can_add_subscription(users, subscriptions, u)
              <=> (PlanOf(u) = "pro" \/ Cardinality(ActiveOf(u)) < 3))
    /\ [][\A u \in UserIds :
            AddFlowStep(u) =>
              IF PlanOf(u) = "pro" \/ Cardinality(ActiveOf(u)) < 3
              THEN /\ reply'.msg = "ask_service_name"
                   /\ user_sessions'[u].step = "awaiting_service_name"
              ELSE /\ reply'.msg = "limit"
                   /\ user_sessions' = user_sessions
                   /\ user_sessions[u].step = "none"
                   /\ subscriptions' = subscriptions
       ]_vars

\* the free user, with 3 active subscriptions, was refused and has no session
C29_Witness ==
    /\ users[1].plan_type = "free"
    /\ Cardinality(ActiveOf(1)) = 3
    /\ reply = [chat_id |-> 1, msg |-> "limit"]
    /\ user_sessions[1].step = "none"

\* ---------------------------------------------------------------- C30
\* C30: get_user_by_telegram_id is get-or-create: for an id without a record it
\* creates one with plan FREE and is_active = true, for an id with a record it
\* returns that record and changes nothing, and there is never more than one
\* record per telegram id; a record keeps its primary key.
C30_GetOrCreate ==
    /\ [](\A t \in UserIds :
            /\ users[t].records <= 1
            /\ users[t].exists <=> users[t].records = 1
            /\ users[t].exists => GetOrCreate(users, t) = users
            /\ ~users[t].exists =>
                 /\ GetOrCreate(users, t)[t].exists
                 /\ GetOrCreate(users, t)[t].plan_type = "free"
                 /\ GetOrCreate(users, t)[t].is_active
                 /\ GetOrCreate(users, t)[t].records = 1
                 /\ \A v \in UserIds \ {t} :
                      /\ GetOrCreate(users, t)[v] = users[v]
                      /\ GetOrCreate(users, t)[t].id # users[v].id
            /\ GetOrCreate(GetOrCreate(users, t), t) = GetOrCreate(users, t))
    /\ [][\A t \in UserIds :
            users[t].exists =>
              /\ users'[t].exists
              /\ users'[t].id = users[t].id
              /\ users'[t].records = 1]_vars

\* the user the bot had not seen was created by the add flow, is FREE and
\* active, and has since completed the flow, every handler of which called
\* get_user_by_telegram_id again
C30_Witness ==
    /\ users[3].exists /\ users[3].plan_type = "free" /\ users[3].is_active
    /\ users[3].records = 1 /\ users[3].id = 3
    /\ \E i \in 1..Len(subscriptions) : subscriptions[i].user_id = 3

\* ---------------------------------------------------------------- C31
\* An admin command sent by c.
AdminCommand(c) ==
    \/ admin_panel(c)
    \/ admin_stats(c)
    \/ admin_broadcast(c)
    \/ \E arg \in GrantArgs : admin_grant_pro(c, arg)

\* C31: an admin command (admin_panel, admin_stats, admin_broadcast,
\* admin_grant_pro) sent by a user whose id differs from ADMIN_USER_ID replies
\* 'Access denied' and changes no state, and no user's plan becomes PRO except
\* through admin_grant_pro sent by the admin.
C31_AdminOnly ==
    [][/\ \A c \in UserIds \ {ADMIN_USER_ID} :
            AdminCommand(c) =>
              /\ reply' = [chat_id |-> c, msg |-> "access_denied"]
              /\ users' = users
              /\ user_sessions' = user_sessions
              /\ subscriptions' = subscriptions
              /\ subs' = subs
       /\ \A u \in UserIds :
            (users'[u].plan_type = "pro" /\ users[u].plan_type # "pro")
              => \E arg \in GrantArgs : admin_grant_pro(ADMIN_USER_ID, arg)
      ]_vars

\* the free user was denied /grant_pro while holding a session and a row, and
\* is still on the FREE plan; the admin had made the new user PRO
C31_Witness ==
    /\ reply = [chat_id |-> 1, msg |-> "access_denied"]
    /\ users[1].plan_type = "free"
    /\ users[3].exists /\ users[3].plan_type = "pro"
    /\ user_sessions[1].step = "awaiting_cost"
    /\ Len(subscriptions) >= 1

\* ---------------------------------------------------------------- C32
\* The moves of a session's step the sequential form allows: the flow starts (or
\* starts again), advances by one prompt, or ends.
FormMove(a, b) ==
    \/ b = "awaiting_service_name"
    \/ a = "awaiting_service_name" /\ b = "awaiting_cost"
    \/ a = "awaiting_cost" /\ b = "awaiting_end_date"
    \/ b = "none"

\* The step in which _handle_cancel answers user u.
CancelStep(u) == reply' = [chat_id |-> u, msg |-> "canceled"] /\ cancel_add(u)

\* C32: the add flow is a sequential form: a session only advances
\* awaiting_service_name -> awaiting_cost -> awaiting_end_date; a subscription
\* is created only from awaiting_end_date on a valid future date, with
\* active = true and reminded-at = null, exactly one per completed flow, and the
\* user's session is removed on completion and on cancel.
C32_SequentialForm ==
    [][\A u \in UserIds :
         /\ user_sessions'[u].step # user_sessions[u].step
              => FormMove(user_sessions[u].step, user_sessions'[u].step)
         /\ subscriptions' # subscriptions /\ Len(subscriptions') > Len(subscriptions)
              => Len(subscriptions') = Len(subscriptions) + 1
         /\ InsertStep(u)
              => /\ user_sessions[u].step = "awaiting_end_date"
                 /\ subscriptions'[Len(subscriptions')].end_date > now + tz
                 /\ subscriptions'[Len(subscriptions')].is_active
                 /\ subscriptions'[Len(subscriptions')].reminded_at = NULL
                 /\ user_sessions'[u] = NoSession
         /\ CancelStep(u) => user_sessions'[u] = NoSession
      ]_vars

\* ---------------------------------------------------------------- C33
\* Input the form has to refuse at the step the session of u is at: a name of
\* more than 50 characters, a text that is no date, a date that is not in the
\* future; and any text of a user without a session.
Refused(u, txt) ==
    \/ user_sessions[u].step = "awaiting_service_name" /\ txt.kind = "long"
    \/ user_sessions[u].step = "awaiting_end_date" /\ txt.kind # "date"
    \/ /\ user_sessions[u].step = "awaiting_end_date"
       /\ txt.kind = "date"
       /\ ParseDate(txt.day) <= now
    \/ user_sessions[u].step = "none"

\* C33: rejected add-flow input leaves the state unchanged: a service name
\* longer than 50 characters, an unparseable date, or a date not in the future
\* creates no subscription and keeps the session at the same step; text from a
\* user with no session changes no session and no subscription.
C33_RefusedChangesNothing ==
    [][\A u \in UserIds, txt \in Texts :
         (handle_text_input(u, txt) /\ Refused(u, txt))
           => /\ subscriptions' = subscriptions
              /\ user_sessions' = user_sessions
      ]_vars

\* ---------------------------------------------------------------- C34
\* The id names no subscription, an inactive one, or one whose owner has no
\* user record.
NotFound(id) ==
    \/ id \notin SubIds
    \/ ~subs[id].is_active
    \/ ~users[subs[id].user_id].exists

\* C34: send_individual_reminder(subscription_id) for an id that does not
\* exist, that names an inactive subscription, or whose owning user record is
\* missing sends no message, changes no subscription, and returns the failure
\* result 'not found' rather than raising; the on-demand task calls
\* send_reminder for no such id.
C34_NotFound ==
    [][/\ \A id \in SubIds \cup {0} :
            (NotFound(id) /\ OnDemand(id))
              => /\ sent' = sent
                 /\ subs' = subs
                 /\ pc'["od"] = "idle"
                 /\ odret' = NotFoundResult
       /\ (pc["od"] = "idle" /\ pc'["od"] = "send") => ~NotFound(cur'["od"])
      ]_vars

\* 'not found' was returned in a store where no id can be dispatched: the one
\* active subscription is due and its owner has no user record, the other row
\* is inactive; no message went out
C34_Witness ==
    /\ odret = NotFoundResult
    /\ subs[1].is_active /\ ~users[subs[1].user_id].exists
    /\ IsDue(subs[1], now)
    /\ \A id \in SubIds : NotFound(id) /\ sent[id] = 0

\* ---------------------------------------------------------------- C35
\* The step in which the running cycle's send_message for subscription s is
\* delivered.
CycleSends(s) ==
    /\ pc["cycle"] = "send" /\ cur["cycle"] = s
    /\ pc'["cycle"] = "write"
    /\ sent'[s] = sent[s] + 1

\* C35: every reminder message a cycle sends is for a subscription that is due
\* at the moment of sending (active, reminded-at null, trigger instant reached),
\* whatever confirmed delete or on-demand dispatch happened between the cycle's
\* selection query and the send.
C35_SentOnlyWhenDue ==
    [][\A s \in SubIds :
         CycleSends(s) =>
           /\ subs[s].is_active
           /\ subs[s].reminded_at = NULL
           /\ IsDue(subs[s], now)
      ]_vars

\* ---------------------------------------------------------------- C36
\* The id names no subscription of user u.
NotOwn(u, id) == id \notin 1..Len(subscriptions) \/ subscriptions[id].user_id # u

\* C36: a user can deactivate only their own subscriptions: a delete or
\* confirm-delete callback carrying the id of a subscription owned by another
\* user (or of no subscription) leaves every subscription unchanged and replies
\* 'Subscription not found'; a subscription is deactivated only in a step that
\* answers its owner's confirm-delete.
C36_OwnOnly ==
    [][/\ \A u \in UserIds, id \in 1..MaxRows :
            (NotOwn(u, id) /\ (delete_subscription(u, id) \/ confirm_delete(u, id)))
              => /\ subscriptions' = subscriptions
                 /\ reply' = [chat_id |-> u, msg |-> "not_found"]
       /\ \A i \in 1..Len(subscriptions) :
            (subscriptions[i].is_active /\ ~subscriptions'[i].is_active)
              => reply' = [chat_id |-> subscriptions[i].user_id, msg |-> "deleted"]
      ]_vars

\* the new user was answered 'not found' while every row of the table is an
\* active subscription of the free user
C36_Witness ==
    /\ reply = [chat_id |-> 3, msg |-> "not_found"]
    /\ Len(subscriptions) = MaxRows
    /\ \A i \in 1..Len(subscriptions) :
          subscriptions[i].user_id = 1 /\ subscriptions[i].is_active

\* ---------------------------------------------------------------- C37
\* C37: in every reachable state a user on the FREE plan has at most 3 active
\* subscriptions, for any sequence of add-flow starts, inputs, cancels, deletes
\* and reconcile runs by that user.
C37_FreeAtMostThree ==
    \A u \in UserIds : PlanOf(u) = "free" => Cardinality(ActiveOf(u)) <= 3

\* the free user is back at 3 active subscriptions in a table of 4 rows: a row
\* was deleted or had expired, which made room under the limit for the fourth
C37_Witness ==
    /\ users[1].plan_type = "free"
    /\ Len(subscriptions) = 4
    /\ Cardinality(ActiveOf(1)) = 3
    /\ reply = [chat_id |-> 1, msg |-> "limit"]

\* ---------------------------------------------------------------- C38
\* The step in which the message of the running cycle for subscription s is
\* composed and delivered.
CycleMessage(s) ==
    /\ pc["cycle"] = "send" /\ cur["cycle"] = s
    /\ pc'["cycle"] = "write"
    /\ text'.subscription_id = s

\* C38: for every reminder sent by a periodic cycle, the days-remaining value
\* shown in the message is at most the subscription's lead time in days, for
\* every lead time in {1, 2, 3, 7}.
C38_DaysAtMostLead ==
    [][\A s \in SubIds :
         CycleMessage(s) => text'.days_left <= PolicyDays(subs[s].reminder_type)
      ]_vars

\* a cycle has sent the reminder of a 7-day subscription at its trigger instant:
\* the message shows 7 days, the lead time itself
C38_Witness ==
    /\ text.subscription_id \in SubIds
    /\ text.days_left = 7
    /\ subs[text.subscription_id].reminder_type = "7_days"
    /\ outcome[text.subscription_id] = "Sent"

\* ---------------------------------------------------------------- C39
\* The step in which caller c, retrying after a failed initialize(), passes
\* lines 47-50.
RetryPassesLoop(c) ==
    /\ webhook.failed
    /\ caller[c] = "loop"
    /\ caller'[c] # "loop"

\* The step in which the initialize() that caller c waits for raises.
InitializeFails(c) ==
    /\ caller[c] = "run"
    /\ caller'[c] = "idle"

\* C39: under any interleaving of concurrent calls to initialize_application_sync,
\* the application's initialize() completes successfully at most once and at
\* most one background event loop and one loop thread are created; a failed
\* initialisation leaves the initialised flag false, and a later call retries on
\* the loop that was already created.
C39_InitializedOnce ==
    /\ [](/\ webhook.initialize_done <= 1
          /\ webhook.loops_created <= 1
          /\ webhook.threads_created <= 1)
    /\ [][\A c \in Callers :
            /\ InitializeFails(c) =>
                 /\ ~webhook'.application_initialized
                 /\ webhook'.initialization_lock = "free"
            /\ RetryPassesLoop(c) =>
                 /\ caller'[c] = "run"
                 /\ webhook.event_loop = "loop"
                 /\ webhook' = webhook
         ]_vars

\* initialize() has failed once and then completed for a later caller, on the
\* one loop, while another caller that had seen the flag false waits at the lock
C39_Witness ==
    /\ webhook.failed
    /\ webhook.application_initialized
    /\ webhook.initialize_done = 1
    /\ webhook.loops_created = 1
    /\ \E c \in Callers : caller[c] = "lock"

====
